---------------------------- MODULE Spec2Model ----------------------------
(***************************************************************************)
(* ENDOCHAIN: the audit hash chain (core/audit.py), the LEI-V calculator   *)
(* (core/lei_v.py) and the universal AI platform caller                    *)
(* (ai_integrations/universal_caller.py) as state machines.                *)
(*                                                                         *)
(* Conventions                                                             *)
(*  - An Optional[T] value is a sequence: <<>> is None, <<x>> is x.        *)
(*  - A Python dict is a record; "k in d" is  "k" \in DOMAIN d.            *)
(*  - A SHA-256 digest is a symbolic term [hexlen, algo, pre]: pre is the  *)
(*    preimage, so two digests are equal exactly when their preimages are  *)
(*    (SHA-256 taken as collision free), and hexlen is the length of the   *)
(*    hexdigest() string.                                                  *)
(*  - datetime.utcnow() reads the variable now, a clock that never goes    *)
(*    back; every action that reads the clock lets it advance.             *)
(***************************************************************************)
EXTENDS Integers, Sequences, FiniteSets, TLC

VARIABLES
    secret_key,   \* AuditHasher._secret_key (Optional[bytes])
    chain,        \* AuditHasher._chain
    last_hash,    \* AuditHasher._last_hash
    now,          \* the clock datetime.utcnow() reads
    ret,          \* the last call made and what it returned
    tampered,     \* which stored entry field was overwritten from outside
    platforms,    \* call_all_platforms: the platforms requested, in order
    tasks,        \* call_all_platforms: one call_platform coroutine each
    finished,     \* indices of the coroutines that returned, in that order
    requests_per_minute,  \* RateLimitMiddleware.requests_per_minute
    request_counts,       \* RateLimitMiddleware._request_counts
    forwarded,            \* how often call_next ran, per client and minute
    tmp_files,            \* the temporary files on disk
    issued_ids,           \* the ids create calls have returned to clients
    serial,               \* OpenBCIEVG._serial
    streaming,            \* OpenBCIEVG._streaming
    sample_count,         \* OpenBCIEVG._sample_count
    written,              \* the bytes written to the serial link, in order
    emitted,              \* the samples read_samples has yielded, in order
    reader_pc,            \* where the read_samples generator stands
    pending,              \* the control call suspended in writer.drain()
    samples_buffer,       \* EVGSignalProcessor._samples_buffer
    vcaw_status,          \* EVGSignalProcessor._vcaw_status
    baseline_lei_v        \* EVGSignalProcessor._baseline_lei_v

hasherVars == <<secret_key, chain, last_hash>>
callerVars == <<platforms, tasks, finished>>
rateVars == <<requests_per_minute, request_counts, forwarded>>
httpVars == <<tmp_files, issued_ids>>
hwVars == <<serial, streaming, sample_count, written, emitted, reader_pc, pending>>
spVars == <<samples_buffer, vcaw_status, baseline_lei_v>>
laterVars == <<rateVars, httpVars, hwVars, spVars>>
vars == <<secret_key, chain, last_hash, now, ret, tampered, platforms, tasks, finished,
          requests_per_minute, request_counts, forwarded, tmp_files, issued_ids,
          serial, streaming, sample_count, written, emitted, reader_pc, pending,
          samples_buffer, vcaw_status, baseline_lei_v>>

\* No fan-out of the universal caller is in progress.
CallerIdle ==
    /\ platforms = <<>>
    /\ tasks = <<>>
    /\ finished = <<>>

\* No RateLimitMiddleware is installed.
RateIdle ==
    /\ requests_per_minute = 0
    /\ request_counts = <<>>
    /\ forwarded = <<>>

\* No request has reached a router.
HttpIdle ==
    /\ tmp_files = {}
    /\ issued_ids = {}

\* The driver as constructed (OpenBCIEVG.__init__), with no generator made.
HwIdle ==
    /\ serial = <<>>
    /\ streaming = FALSE
    /\ sample_count = 0
    /\ written = <<>>
    /\ emitted = <<>>
    /\ reader_pc = "none"
    /\ pending = "none"

\* The signal processor as constructed (EVGSignalProcessor.__init__): the
\* buffer is kept as its length and whether it holds a sample that has not
\* six channels.
SpIdle ==
    /\ samples_buffer = [len |-> 0, short |-> FALSE]
    /\ vcaw_status = <<>>
    /\ baseline_lei_v = <<>>

LaterIdle == RateIdle /\ HttpIdle /\ HwIdle /\ SpIdle

(***************************************************************************)
(* Bounds of the model.                                                    *)
(***************************************************************************)
MaxChain == 3      \* hash_computation calls per hasher
MaxClock == 1      \* clock readings 0..MaxClock

None == <<>>
Some(x) == <<x>>

(***************************************************************************)
(* core/audit.py : AuditHasher                                             *)
(***************************************************************************)
HexDigestLen == 64

\* "0" * 64
GENESIS_HASH == [hexlen |-> 64, algo |-> "genesis", pre |-> <<>>]

CITATION == "Viduya Family Legacy Glyph (c) 2025"

\* json.dumps(data, sort_keys=True, default=str)
serialize_for_hash(data) == <<"json", data>>

\* hashlib.sha256(serialized).hexdigest() / hmac.new(key, serialized, sha256).hexdigest()
Digest(key, payload) ==
    IF key # None
    THEN [hexlen |-> HexDigestLen, algo |-> "hmac-sha256", pre |-> <<key, payload>>]
    ELSE [hexlen |-> HexDigestLen, algo |-> "sha256", pre |-> <<payload>>]

generate_summary(data) ==
    IF "patient_id" \in DOMAIN data /\ "lei_v" \in DOMAIN data
    THEN <<"LEI-V=", data.lei_v, " for patient ", data.patient_id>>
    ELSE <<"Audit entry: ", DOMAIN data>>

\* data.get("type", "computation")
DataType(data) == IF "type" \in DOMAIN data THEN data.type ELSE "computation"

\* The digest hash_computation computes at clock reading t1 on a hasher whose
\* last-hash pointer is prev.
NewHash(key, prev, data, t1) ==
    Digest(key, [timestamp |-> t1, citation |-> CITATION,
                 data |-> serialize_for_hash(data), previous_hash |-> prev])

\* The AuditEntry hash_computation appends; t2 is the second clock reading.
NewEntryLinksGenesis(key, prev, data, t1, t2) ==
    [entry_hash    |-> NewHash(key, prev, data, t1),
     previous_hash |-> GENESIS_HASH,
     timestamp     |-> t2,
     data_type     |-> DataType(data),
     data_summary  |-> generate_summary(data)]

NewEntry(key, prev, data, t1, t2) ==
    [entry_hash    |-> NewHash(key, prev, data, t1),
     previous_hash |-> prev,
     timestamp     |-> t2,
     data_type     |-> DataType(data),
     data_summary  |-> generate_summary(data)]

\* self._chain.append(entry)
ChainAfterReplaceLast(c, entry) ==
    IF c = <<>> THEN <<entry>> ELSE [c EXCEPT ![Len(c)] = entry]

ChainAfter(c, entry) == Append(c, entry)

\* The loop of verify_chain_integrity from entry i on, current_hash being the
\* accumulated hash.
RECURSIVE VerifyFrom(_, _, _)
VerifyFrom(c, i, current_hash) ==
    IF i > Len(c) THEN TRUE
    ELSE IF c[i].previous_hash # current_hash THEN FALSE
    ELSE VerifyFrom(c, i + 1, c[i].entry_hash)

VerifyFirstOnly(c) ==
    IF c = <<>> THEN TRUE ELSE c[1].previous_hash = GENESIS_HASH

VerifyChain(c) ==
    IF c = <<>> THEN TRUE ELSE VerifyFrom(c, 1, GENESIS_HASH)

\* AuditEntry.to_dict
to_dict(e) ==
    [entry_hash    |-> e.entry_hash,
     previous_hash |-> e.previous_hash,
     timestamp     |-> <<"isoformat", e.timestamp>>,
     data_type     |-> e.data_type,
     data_summary  |-> e.data_summary]

GetChainValue(c) == [i \in 1..Len(c) |-> to_dict(c[i])]

\* The dicts the tests and callers hand to hash_computation.
AuditData ==
    { [entry |-> 1],
      [entry |-> 2],
      [type |-> "lei_v", patient_id |-> "TEST", lei_v |-> "0.015"] }

SecretKeys == {None, Some("k")}

\* The clock readings an action may take: t1 <= t2, neither before now.
ClockPairs == {p \in (now..MaxClock) \X (now..MaxClock) : p[1] <= p[2]}

AppendEntryKeepsPointer(entry) ==
    /\ chain' = ChainAfter(chain, entry)
    /\ last_hash' = last_hash

\* self._chain.append(entry); self._last_hash = new_hash
AppendEntry(entry) ==
    /\ chain' = ChainAfter(chain, entry)
    /\ last_hash' = entry.entry_hash

hash_computation(data) ==
    /\ Len(chain) < MaxChain
    /\ \E p \in ClockPairs :
         LET entry == NewEntry(secret_key, last_hash, data, p[1], p[2]) IN
           /\ AppendEntry(entry)
           /\ now' = p[2]
           /\ ret' = [op |-> "hash_computation", value |-> entry.entry_hash]
    /\ UNCHANGED <<secret_key, tampered, callerVars, laterVars>>

verify_chain_integrity ==
    /\ ret' = [op |-> "verify_chain_integrity", value |-> VerifyChain(chain)]
    /\ UNCHANGED <<secret_key, chain, last_hash, now, tampered, callerVars, laterVars>>

get_chain ==
    /\ ret' = [op |-> "get_chain", value |-> GetChainValue(chain)]
    /\ UNCHANGED <<secret_key, chain, last_hash, now, tampered, callerVars, laterVars>>

export_for_ipfs ==
    /\ \E t \in now..MaxClock :
         /\ now' = t
         /\ ret' = [op |-> "export_for_ipfs",
                    value |-> <<"json", [chain        |-> GetChainValue(chain),
                                         chain_length |-> Len(chain),
                                         last_hash    |-> last_hash,
                                         citation     |-> CITATION,
                                         exported_at  |-> <<"isoformat", t>>]>>]
    /\ UNCHANGED <<secret_key, chain, last_hash, tampered, callerVars, laterVars>>

\* AuditHasher.__init__
HasherInit(key) ==
    /\ secret_key = key
    /\ chain = <<>>
    /\ last_hash = GENESIS_HASH

InitAudit ==
    /\ \E key \in SecretKeys : HasherInit(key)
    /\ now = 0
    /\ ret = [op |-> "init", value |-> None]
    /\ tampered = "none"
    /\ CallerIdle
    /\ LaterIdle

NextAudit ==
    \/ \E data \in AuditData : hash_computation(data)
    \/ verify_chain_integrity
    \/ get_chain
    \/ export_for_ipfs

Spec == InitAudit /\ [][NextAudit]_vars

(***************************************************************************)
(* A stored AuditEntry is a plain (not frozen) dataclass: whoever holds    *)
(* the chain can overwrite a field of an entry.  SpecTamper lets that      *)
(* happen once, to the previous_hash of one entry.                         *)
(***************************************************************************)
\* Every hash value at hand: the genesis value, every digest in the chain,
\* and a digest that occurs nowhere in it.
BogusHash ==
    Digest(None, [timestamp |-> 0, citation |-> "forged",
                  data |-> serialize_for_hash([entry |-> 1]),
                  previous_hash |-> GENESIS_HASH])

HashValues ==
    {GENESIS_HASH, BogusHash}
        \cup {chain[i].entry_hash : i \in 1..Len(chain)}

TamperPreviousHash ==
    /\ tampered = "none"
    /\ \E i \in 1..Len(chain) : \E v \in HashValues :
         /\ v # chain[i].previous_hash
         /\ chain' = [chain EXCEPT ![i].previous_hash = v]
    /\ tampered' = "previous_hash"
    /\ ret' = [op |-> "tamper", value |-> None]
    /\ UNCHANGED <<secret_key, last_hash, now, callerVars, laterVars>>

NextTamper ==
    \/ \E data \in AuditData : hash_computation(data)
    \/ verify_chain_integrity
    \/ TamperPreviousHash

SpecTamper == InitAudit /\ [][NextTamper]_vars

(***************************************************************************)
(* Numbers.  A sympy Rational, a float and a Decimal are all written       *)
(* [n, d, e], the number (n / d) * 10^(-e) with d > 0: the decimal         *)
(* exponent is kept apart so that magnitudes beyond the range of a double  *)
(* can be written.  Mantissas n/d of the model stay below 10^MaxShift.     *)
(***************************************************************************)
MaxShift == 8

Abs(x) == IF x < 0 THEN -x ELSE x

RECURSIVE GCD(_, _)
GCD(a, b) == IF b = 0 THEN a ELSE GCD(b, a % b)

RECURSIVE Pow10(_)
Pow10(k) == IF k = 0 THEN 1 ELSE 10 * Pow10(k - 1)

\* The number of decimal digits of n >= 0 (0 has none).
RECURSIVE Digits(_)
Digits(n) == IF n = 0 THEN 0 ELSE 1 + Digits(n \div 10)

SciZero == [n |-> 0, d |-> 1, e |-> 0]

Sci(n, d, e) ==
    IF n = 0 THEN SciZero
    ELSE LET g == GCD(Abs(n), d) IN [n |-> n \div g, d |-> d \div g, e |-> e]

\* a and b over the common exponent E = max(a.e, b.e): the numerators.
AlignedN(a, b) == a.n * b.d * Pow10((IF a.e > b.e THEN a.e ELSE b.e) - a.e)

SciSub(a, b) ==
    IF b.n = 0 THEN a
    ELSE IF a.n = 0 THEN [b EXCEPT !.n = -b.n]
    ELSE Sci(AlignedN(a, b) - AlignedN(b, a), a.d * b.d,
             IF a.e > b.e THEN a.e ELSE b.e)

SciAdd(a, b) == SciSub(a, [b EXCEPT !.n = -b.n])

SciMul(a, b) == Sci(a.n * b.n, a.d * b.d, a.e + b.e)

SciDivInt(a, k) == Sci(a.n, a.d * k, a.e)

\* a < b.  When the exponents are more than MaxShift apart the operand with
\* the larger one is smaller in magnitude than every nonzero mantissa of the
\* other.
SciLess(a, b) ==
    IF a.n = 0 THEN b.n > 0
    ELSE IF b.n = 0 THEN a.n < 0
    ELSE IF a.e - b.e > MaxShift THEN (IF b.n > 0 THEN TRUE ELSE FALSE)
    ELSE IF b.e - a.e > MaxShift THEN (IF a.n < 0 THEN TRUE ELSE FALSE)
    ELSE AlignedN(a, b) < AlignedN(b, a)

SciMin(a, b) == IF SciLess(b, a) THEN b ELSE a

RECURSIVE SciSum(_)
SciSum(xs) == IF xs = <<>> THEN SciZero ELSE SciAdd(SciSum(SubSeq(xs, 1, Len(xs) - 1)), xs[Len(xs)])

(***************************************************************************)
(* float(x): the nearest IEEE-754 double.  The smallest positive double is *)
(* 2^-1074 (4.94e-324); a nonzero x of magnitude at most 2^-1075 becomes   *)
(* 0.0.  With n/d < 10^Digits(n), x is below 10^-324 < 2^-1075 as soon as  *)
(* e - Digits(n) >= 324.  Rounding of the 53-bit mantissa moves a value by *)
(* less than one part in 10^15: every comparison the model makes is        *)
(* between numbers that are equal or further apart than that, so the       *)
(* rounded value is written as the exact one.                              *)
(***************************************************************************)
FloatMinExp10 == 324

FloatUnderflows(x) == x.n # 0 /\ x.e - Digits(Abs(x.n)) >= FloatMinExp10

ToFloat(x) == IF x.n = 0 \/ FloatUnderflows(x) THEN SciZero ELSE x

\* Decimal(str(float(N(x, 50))))
ToDecimal(x) == ToFloat(x)

(***************************************************************************)
(* core/lei_v.py : DiagnosticStage, LEIVThresholds                         *)
(***************************************************************************)
Stages ==
    <<"healthy", "stage_0_early", "stage_i_minimal", "stage_ii_mild",
      "stage_iii_moderate", "stage_iv_severe">>

\* The position of a stage in DiagnosticStage.
StageRank(s) == CHOOSE i \in 1..Len(Stages) : Stages[i] = s

\* Decimal("0.018"), Decimal("0.08"), Decimal("0.15"), Decimal("0.25"),
\* Decimal("0.40"), in thousandths.
Stage0Milli == 18
AdvancedMilli == 80
StageIIMilli == 150
StageIIIMilli == 250
StageIVMilli == 400

Milli(k) == Sci(k, 1, 3)

stage_0_threshold == Milli(Stage0Milli)
advanced_threshold == Milli(AdvancedMilli)

SciLessOrEqual(a, b) == ~SciLess(b, a)

classify_open_lower(lei_v) ==
    IF SciLessOrEqual(lei_v, stage_0_threshold) THEN "healthy"
    ELSE IF SciLess(lei_v, advanced_threshold) THEN "stage_0_early"
    ELSE IF SciLess(lei_v, Milli(StageIIMilli)) THEN "stage_i_minimal"
    ELSE IF SciLess(lei_v, Milli(StageIIIMilli)) THEN "stage_ii_mild"
    ELSE IF SciLess(lei_v, Milli(StageIVMilli)) THEN "stage_iii_moderate"
    ELSE "stage_iv_severe"

classify(lei_v) ==
    IF SciLess(lei_v, stage_0_threshold) THEN "healthy"
    ELSE IF SciLess(lei_v, advanced_threshold) THEN "stage_0_early"
    ELSE IF SciLess(lei_v, Milli(StageIIMilli)) THEN "stage_i_minimal"
    ELSE IF SciLess(lei_v, Milli(StageIIIMilli)) THEN "stage_ii_mild"
    ELSE IF SciLess(lei_v, Milli(StageIVMilli)) THEN "stage_iii_moderate"
    ELSE "stage_iv_severe"

(***************************************************************************)
(* core/lei_v.py : LEIVCalculator                                          *)
(* The six radii of one call share their decimal exponent: a call's radii  *)
(* are [ks |-> <<k1, ..>>, e |-> e], radius i being ks[i] * 10^(-e).       *)
(***************************************************************************)
NUM_ELECTRODES == 6

Whole(k) == Sci(k, 1, 0)

Radius(rs, i) == Sci(rs.ks[i], 1, rs.e)

Radii(rs) == [i \in 1..Len(rs.ks) |-> Radius(rs, i)]

\* sum(radial_distances) / self.NUM_ELECTRODES
r_mean_symbolic(rs) == SciDivInt(SciSum(Radii(rs)), NUM_ELECTRODES)

\* [(r - r_mean_symbolic)**2 for r in radial_distances]
variance_terms(rs) ==
    LET mean == r_mean_symbolic(rs) IN
    [i \in 1..Len(rs.ks) |->
        LET dev == SciSub(Radius(rs, i), mean) IN SciMul(dev, dev)]

\* sp.simplify(sum(variance_terms)): an exact rational in lowest terms
lei_v_simplified(rs) == SciSum(variance_terms(rs))

\* Decimal(str(float(N(lei_v_simplified, 50))))
lei_v_decimal(rs) == ToDecimal(lei_v_simplified(rs))

calculate_confidence(lei_v, stage) ==
    IF stage = "healthy"
    THEN LET margin == ToFloat(SciSub(stage_0_threshold, lei_v)) IN
         SciMin(Whole(99), SciAdd(Whole(80), SciMul(margin, Whole(500))))
    ELSE IF stage = "stage_0_early"
    THEN LET lower_margin == ToFloat(SciSub(lei_v, stage_0_threshold))
             upper_margin == ToFloat(SciSub(advanced_threshold, lei_v))
             margin == SciMin(lower_margin, upper_margin) IN
         SciMin(Whole(95), SciAdd(Whole(70), SciMul(margin, Whole(200))))
    ELSE LET margin == ToFloat(SciSub(lei_v, advanced_threshold)) IN
         SciMin(Whole(99), SciAdd(Whole(85), SciMul(margin, Whole(50))))

Metadata(cycle_day, v_caw_hour) ==
    [num_electrodes        |-> NUM_ELECTRODES,
     cycle_day             |-> cycle_day,
     v_caw_hour            |-> v_caw_hour,
     computation_precision |-> "symbolic",
     glyph_citation        |-> CITATION]

Str(x) == <<"str", x>>

AuditDataOf(rs, patient_id, cycle_day, v_caw_hour, t0) ==
    [patient_id       |-> patient_id,
     lei_v            |-> Str(lei_v_decimal(rs)),
     timestamp        |-> <<"isoformat", t0>>,
     radial_distances |-> [i \in 1..Len(rs.ks) |-> Str(ToDecimal(Radius(rs, i)))],
     metadata         |-> Metadata(cycle_day, v_caw_hour)]

LEIVResult(rs, patient_id, cycle_day, v_caw_hour, t0, audit_hash) ==
    LET terms   == variance_terms(rs)
        decimal == ToDecimal(SciSum(terms))
        stage   == classify(decimal) IN
    [lei_v_value          |-> decimal,
     lei_v_symbolic       |-> SciSum(terms),
     stage                |-> stage,
     confidence_percent   |-> calculate_confidence(decimal, stage),
     radial_distances     |-> [i \in 1..Len(rs.ks) |-> ToDecimal(Radius(rs, i))],
     mean_radial          |-> ToDecimal(r_mean_symbolic(rs)),
     variance_components  |-> [i \in 1..Len(rs.ks) |-> ToDecimal(terms[i])],
     timestamp            |-> t0,
     patient_id           |-> patient_id,
     audit_hash           |-> audit_hash,
     computation_metadata |-> Metadata(cycle_day, v_caw_hour)]

\* The clock readings of one compute call: timestamp, then the two of
\* hash_computation.
ClockTriples ==
    {p \in (now..MaxClock) \X (now..MaxClock) \X (now..MaxClock) :
        p[1] <= p[2] /\ p[2] <= p[3]}

\* len(radial_distances) != self.NUM_ELECTRODES
WrongCountAlsoShort(rs) == Len(rs.ks) > NUM_ELECTRODES

WrongCount(rs) == Len(rs.ks) # NUM_ELECTRODES

\* The entry compute has the hasher append.
ComputeEntryUnlogged(rs, patient_id, cycle_day, v_caw_hour, p) ==
    NewEntry(secret_key, last_hash, [patient_id |-> patient_id], p[2], p[3])

ComputeEntry(rs, patient_id, cycle_day, v_caw_hour, p) ==
    NewEntry(secret_key, last_hash,
             AuditDataOf(rs, patient_id, cycle_day, v_caw_hour, p[1]), p[2], p[3])

\* The audit_hash compute puts into the LEIVResult.
ResultHashStale(entry) == entry.previous_hash

ResultHash(entry) == entry.entry_hash

compute(rs, patient_id, cycle_day, v_caw_hour) ==
    LET args == [radial_distances |-> rs, patient_id |-> patient_id,
                 cycle_day |-> cycle_day, v_caw_hour |-> v_caw_hour] IN
    IF WrongCount(rs)
    THEN /\ ret' = [op |-> "compute", args |-> args,
                    raised |-> Some("ValueError"), value |-> None]
         /\ UNCHANGED <<secret_key, chain, last_hash, now, tampered, callerVars, laterVars>>
    ELSE /\ \E p \in ClockTriples :
              LET entry == ComputeEntry(rs, patient_id, cycle_day, v_caw_hour, p) IN
                /\ AppendEntry(entry)
                /\ now' = p[3]
                /\ ret' = [op |-> "compute", args |-> args, raised |-> None,
                           value |-> Some(LEIVResult(rs, patient_id, cycle_day,
                                                     v_caw_hour, p[1],
                                                     ResultHash(entry)))]
         /\ UNCHANGED <<secret_key, tampered, callerVars, laterVars>>

\* LEIVCalculator.__init__: self.hasher = AuditHasher()
InitCalc ==
    /\ HasherInit(None)
    /\ now = 0
    /\ ret = [op |-> "init", value |-> None]
    /\ tampered = "none"
    /\ CallerIdle
    /\ LaterIdle

(***************************************************************************)
(* SpecCalc: one LEIVCalculator, called again and again.                   *)
(***************************************************************************)
MaxRadii == 7       \* a call supplies 0..MaxRadii radii
MaxComputes == 2    \* successful compute calls per calculator

\* n radii, all 0.433, or 0.443 and 0.423 in turn.
RadiiOfLen(n, pattern) ==
    [ks |-> [i \in 1..n |-> IF pattern = "uniform" THEN 433
                            ELSE IF i % 2 = 1 THEN 443 ELSE 423],
     e  |-> 3]

CalcRadii == {RadiiOfLen(n, pattern) : n \in 0..MaxRadii, pattern \in {"uniform", "varied"}}

PatientIds == {"TEST-001"}

\* (cycle_day, v_caw_hour)
CalcContext == {<<None, None>>, <<Some(14), Some(48)>>}

NextCalc ==
    \E rs \in CalcRadii : \E patient_id \in PatientIds : \E c \in CalcContext :
        /\ Len(chain) < MaxComputes
        /\ compute(rs, patient_id, c[1], c[2])

SpecCalc == InitCalc /\ [][NextCalc]_vars

(***************************************************************************)
(* SpecFormula: a fresh LEIVCalculator computes once, as create_assessment *)
(* has it do, on six radii drawn from FormulaMantissas * 10^(-e).          *)
(***************************************************************************)
FormulaMantissas == {0, 433, 443}
FormulaExps == {3, 170}

FormulaInputs ==
    {[ks |-> ks, e |-> e] : ks \in [1..NUM_ELECTRODES -> FormulaMantissas], e \in FormulaExps}

InitFormula ==
    /\ HasherInit(None)
    /\ now = 0
    /\ \E rs \in FormulaInputs : ret = [op |-> "input", args |-> rs]
    /\ tampered = "none"
    /\ CallerIdle
    /\ LaterIdle

NextFormula ==
    /\ ret.op = "input"
    /\ compute(ret.args, "TEST-002", None, None)

SpecFormula == InitFormula /\ [][NextFormula]_vars

(***************************************************************************)
(* SpecClassify: LEIVThresholds.classify on the Decimals n * 10^(-4),      *)
(* -NegClassify <= n <= MaxClassify.                                       *)
(***************************************************************************)
NegClassify == 20
MaxClassify == 4100

InitClassify ==
    /\ HasherInit(None)
    /\ now = 0
    /\ \E n \in (-NegClassify)..MaxClassify :
          ret = [op |-> "input", args |-> [n |-> n, d |-> 1, e |-> 4]]
    /\ tampered = "none"
    /\ CallerIdle
    /\ LaterIdle

NextClassify ==
    /\ ret.op = "input"
    /\ ret' = [op |-> "classify", args |-> ret.args, value |-> classify(ret.args)]
    /\ UNCHANGED <<secret_key, chain, last_hash, now, tampered, callerVars, laterVars>>

SpecClassify == InitClassify /\ [][NextClassify]_vars

(***************************************************************************)
(* ai_integrations/universal_caller.py : UniversalAICaller                 *)
(*                                                                         *)
(* call_all_platforms makes one call_platform coroutine per requested      *)
(* platform and awaits asyncio.gather over them.  The coroutines run on    *)
(* one event loop: a coroutine runs alone from one await to the next, and  *)
(* the upstream decides which suspended coroutine goes on next.  Each      *)
(* action below is one such uninterrupted segment of one coroutine.        *)
(* A task is at                                                            *)
(*   "created"    not yet run                                              *)
(*   "post"       suspended in  async with session.post(...)               *)
(*   "json"       suspended in  await response.json()                      *)
(*   "exiting"    return value built, suspended in the __aexit__ of the    *)
(*                two context managers                                     *)
(*   "unwinding"  an exception is travelling through the __aexit__ of the  *)
(*                context managers towards the except clauses              *)
(*   "done"       returned a PlatformResponse                              *)
(*   "raised"     ended with an exception no except clause took            *)
(* Leaving a context manager is taken not to raise.                        *)
(***************************************************************************)
\* class Platform(Enum), by value, in definition order
AllPlatforms == <<"med_gemini", "aidoc", "tempus", "viz_ai", "openevidence">>

Platform == {AllPlatforms[i] : i \in 1..Len(AllPlatforms)}

MASTER_PROMPT == "master_prompt"

\* _inject_master_prompt: payload.copy() with one key set
inject_master_prompt(platform, payload) ==
    IF platform = "med_gemini"
        THEN [k \in DOMAIN payload \cup {"system_instruction"} |->
                 IF k = "system_instruction" THEN MASTER_PROMPT ELSE payload[k]]
    ELSE IF platform \in {"aidoc", "tempus", "viz_ai"}
        THEN [k \in DOMAIN payload \cup {"endochain_context"} |->
                 IF k = "endochain_context" THEN MASTER_PROMPT ELSE payload[k]]
    ELSE IF platform = "openevidence"
        THEN [k \in DOMAIN payload \cup {"context"} |->
                 IF k = "context" THEN MASTER_PROMPT ELSE payload[k]]
    ELSE payload

\* _get_platform_config: (endpoint, api_key); no API key is configured
get_platform_config(platform) ==
    IF platform \in Platform THEN <<<<"endpoint", platform>>, None>>
    ELSE <<<<"endpoint", "">>, Some("")>>

\* _normalize_response: raw.get("confidence", raw.get("score", 0.0)) and
\* raw.get("findings", raw.get("results", []))
normalize_response(platform, raw) ==
    [platform   |-> platform,
     confidence |-> IF "confidence" \in DOMAIN raw THEN raw.confidence
                    ELSE IF "score" \in DOMAIN raw THEN raw.score
                    ELSE 0,
     findings   |-> IF "findings" \in DOMAIN raw THEN raw.findings
                    ELSE IF "results" \in DOMAIN raw THEN raw.results
                    ELSE <<>>,
     citation   |-> CITATION]

EmptyDict == [k \in {} |-> k]

\* int((datetime.utcnow() - start).total_seconds() * 1000), the clock
\* counting seconds
LatencyMs(start, t) == (t - start) * 1000

\* The PlatformResponse of the status-200 branch of call_platform.
SuccessResponse(platform, raw, latency, t, audit_hash) ==
    LET normalized == normalize_response(platform, raw) IN
    [platform     |-> platform,
     success      |-> TRUE,
     confidence   |-> normalized.confidence,
     result       |-> normalized,
     raw_response |-> Some(raw),
     latency_ms   |-> latency,
     error        |-> None,
     timestamp    |-> t,
     audit_hash   |-> audit_hash]

\* The data the status-200 branch has hashed.
SuccessAudit(platform, raw) ==
    [platform |-> platform, result |-> normalize_response(platform, raw)]

\* _error_response
ErrorResponse(platform, error, start, t, audit_hash) ==
    [platform     |-> platform,
     success      |-> FALSE,
     confidence   |-> 0,
     result       |-> EmptyDict,
     raw_response |-> None,
     latency_ms   |-> LatencyMs(start, t),
     error        |-> Some(error),
     timestamp    |-> t,
     audit_hash   |-> audit_hash]

\* The data _error_response has hashed.
ErrorAudit(platform, error) == [platform |-> platform, error |-> error]

\* f"HTTP {response.status}"
FormatHttp(status) ==
    CASE status = 200 -> "HTTP 200"
      [] status = 500 -> "HTTP 500"

\* Which except clause of call_platform takes an exception.
ExceptClause(exc) ==
    IF exc.type = "TimeoutError" THEN "Timeout"
    ELSE IF exc.type \in {"ClientError", "AttributeError", "Exception"} THEN "Exception"
    ELSE "none"

\* The error string the except clause hands to _error_response:
\* "Timeout", or str(e).
ErrorOfException(exc) ==
    IF ExceptClause(exc) = "Timeout" THEN "Timeout" ELSE exc.message

(***************************************************************************)
(* What the upstream can do to a call.                                     *)
(***************************************************************************)
HttpStatuses == {200, 500}

\* str(e) of an exception is whatever its args make it; Exception() has
\* the empty string.
ExceptionMessages == {"", "Cannot connect to host"}

\* Raised while the request is sent or the body is read.
UpstreamExceptions ==
    {[type |-> "TimeoutError", message |-> ""]}
        \cup {[type |-> "ClientError", message |-> m] : m \in ExceptionMessages}

\* JSON objects the upstream answers with.
RawBodies ==
    {[confidence |-> 90, findings |-> <<"lesion">>],
     [score |-> 70, results |-> <<>>],
     [status |-> "ok"]}

\* What response.json() returns: a JSON object (a dict) or a JSON array.
JsonBodies ==
    {[kind |-> "object", value |-> raw] : raw \in RawBodies}
        \cup {[kind |-> "array", value |-> <<>>]}

\* A JSON body that is not an object has no get().
NotADict == [type |-> "AttributeError", message |-> "'list' object has no attribute 'get'"]

Payload == [patient_id |-> "TEST-001"]

MaxPlatforms == 2    \* platforms of one fan-out

\* One platform of each branch of _inject_master_prompt.
RequestedPlatforms == {"med_gemini", "aidoc", "openevidence"}

\* platforms=None, or a list of platforms, repeats allowed
PlatformLists ==
    UNION {[1..n -> RequestedPlatforms] : n \in 0..MaxPlatforms}

\* if platforms is None: platforms = list(Platform)
ResolvePlatforms(requested) ==
    IF requested = None THEN AllPlatforms ELSE requested[1]

Requests ==
    {r \in {None} \cup {Some(l) : l \in PlatformLists} :
        Len(ResolvePlatforms(r)) <= MaxPlatforms}

\* self.call_platform(p, payload): a coroutine that has not run yet
NewTask(platform) ==
    [platform   |-> platform,
     pc         |-> "created",
     start_time |-> None,
     request    |-> None,
     upstream   |-> <<>>,
     latency    |-> None,
     exc        |-> None,
     response   |-> None]

\* UniversalAICaller.__init__: self.hasher = AuditHasher()
InitCaller ==
    /\ HasherInit(None)
    /\ now = 0
    /\ ret = [op |-> "init", value |-> None, raised |-> None]
    /\ tampered = "none"
    /\ CallerIdle
    /\ LaterIdle

\* call_all_platforms up to its await
call_all_platforms(requested) ==
    /\ ret.op = "init"
    /\ platforms' = ResolvePlatforms(requested)
    /\ tasks' = [i \in 1..Len(platforms') |-> NewTask(platforms'[i])]
    /\ finished' = <<>>
    /\ ret' = [op |-> "call_all_platforms", value |-> None, raised |-> None]
    /\ UNCHANGED <<secret_key, chain, last_hash, now, tampered, laterVars>>

Awaiting == ret.op = "call_all_platforms" /\ ret.value = None /\ ret.raised = None

\* The event loop runs the tasks of gather for the first time in the order
\* they were made: start_time, the enhanced payload, the session, the post.
TaskStart(i) ==
    /\ Awaiting
    /\ tasks[i].pc = "created"
    /\ \A j \in 1..(i - 1) : tasks[j].pc # "created"
    /\ \E t \in now..MaxClock :
         /\ now' = t
         /\ tasks' = [tasks EXCEPT
                ![i].pc = "post",
                ![i].start_time = Some(t),
                ![i].request = Some([endpoint |-> get_platform_config(tasks[i].platform)[1],
                                     json |-> inject_master_prompt(tasks[i].platform, Payload)])]
    /\ UNCHANGED <<secret_key, chain, last_hash, ret, tampered, platforms, finished, laterVars>>

\* The response headers arrive: status 200 goes on to read the body, any
\* other status returns _error_response from inside the context managers.
PostReturns(i, status) ==
    /\ Awaiting
    /\ tasks[i].pc = "post"
    /\ IF status = 200
         THEN /\ \E t \in now..MaxClock :
                   /\ now' = t
                   /\ tasks' = [tasks EXCEPT
                          ![i].pc = "json",
                          ![i].upstream = Append(@, "http_200"),
                          ![i].latency = Some(LatencyMs(tasks[i].start_time[1], t))]
              /\ UNCHANGED <<chain, last_hash>>
         ELSE \E p \in ClockPairs :
                LET t == tasks[i]
                    error == FormatHttp(status)
                    entry == NewEntry(secret_key, last_hash,
                                      ErrorAudit(t.platform, error), p[1], p[2])
                IN /\ AppendEntry(entry)
                   /\ now' = p[2]
                   /\ tasks' = [tasks EXCEPT
                          ![i].pc = "exiting",
                          ![i].upstream = Append(@, "http_other"),
                          ![i].latency = Some(LatencyMs(t.start_time[1], p[1])),
                          ![i].response = Some(ErrorResponse(t.platform, error,
                                   t.start_time[1], p[1], entry.entry_hash))]
    /\ UNCHANGED <<secret_key, ret, tampered, platforms, finished, laterVars>>

\* The request fails or runs into ClientTimeout(total=timeout).
PostRaises(i, exc) ==
    /\ Awaiting
    /\ tasks[i].pc = "post"
    /\ tasks' = [tasks EXCEPT
           ![i].pc = "unwinding",
           ![i].upstream = Append(@, IF exc.type = "TimeoutError" THEN "timeout"
                                     ELSE "exception"),
           ![i].exc = Some(exc)]
    /\ UNCHANGED <<secret_key, chain, last_hash, now, ret, tampered, platforms, finished, laterVars>>

\* response.json() returns raw; a JSON object normalizes and the success
\* record is built (timestamp, then audit_hash), anything else has no get().
JsonReturns(i, body) ==
    /\ Awaiting
    /\ tasks[i].pc = "json"
    /\ IF body.kind = "object"
         THEN \E p \in ClockPairs :
                LET t == tasks[i]
                    raw == body.value
                    entry == NewEntry(secret_key, last_hash,
                                      SuccessAudit(t.platform, raw), p[1], p[2])
                IN /\ AppendEntry(entry)
                   /\ now' = p[2]
                   /\ tasks' = [tasks EXCEPT
                          ![i].pc = "exiting",
                          ![i].upstream = Append(@, "body_dict"),
                          ![i].response = Some(SuccessResponse(t.platform, raw,
                                   t.latency[1], p[1], entry.entry_hash))]
         ELSE /\ tasks' = [tasks EXCEPT
                     ![i].pc = "unwinding",
                     ![i].upstream = Append(@, "body_not_dict"),
                     ![i].exc = Some(NotADict)]
              /\ UNCHANGED <<chain, last_hash, now>>
    /\ UNCHANGED <<secret_key, ret, tampered, platforms, finished, laterVars>>

\* Reading or decoding the body fails or runs into the timeout.
JsonRaises(i, exc) ==
    /\ Awaiting
    /\ tasks[i].pc = "json"
    /\ tasks' = [tasks EXCEPT
           ![i].pc = "unwinding",
           ![i].upstream = Append(@, IF exc.type = "TimeoutError" THEN "body_timeout"
                                     ELSE "body_exception"),
           ![i].exc = Some(exc)]
    /\ UNCHANGED <<secret_key, chain, last_hash, now, ret, tampered, platforms, finished, laterVars>>

\* The context managers are left and the return statement completes.
Exited(i) ==
    /\ Awaiting
    /\ tasks[i].pc = "exiting"
    /\ tasks' = [tasks EXCEPT ![i].pc = "done"]
    /\ finished' = Append(finished, i)
    /\ UNCHANGED <<secret_key, chain, last_hash, now, ret, tampered, platforms, laterVars>>

\* The exception reaches the except clauses: _error_response, or, when no
\* clause takes it, the coroutine ends with the exception.
Unwound(i) ==
    /\ Awaiting
    /\ tasks[i].pc = "unwinding"
    /\ IF ExceptClause(tasks[i].exc[1]) = "none"
         THEN /\ tasks' = [tasks EXCEPT ![i].pc = "raised"]
              /\ UNCHANGED <<chain, last_hash, now>>
         ELSE \E p \in ClockPairs :
                LET t == tasks[i]
                    error == ErrorOfException(t.exc[1])
                    entry == NewEntry(secret_key, last_hash,
                                      ErrorAudit(t.platform, error), p[1], p[2])
                IN /\ AppendEntry(entry)
                   /\ now' = p[2]
                   /\ tasks' = [tasks EXCEPT
                          ![i].pc = "done",
                          ![i].response = Some(ErrorResponse(t.platform, error,
                                   t.start_time[1], p[1], entry.entry_hash))]
    /\ finished' = Append(finished, i)
    /\ UNCHANGED <<secret_key, ret, tampered, platforms, laterVars>>

\* What asyncio.gather(*tasks) hands back: the results by position.
GatherResultsAsCompleted ==
    [k \in 1..Len(finished) |-> tasks[finished[k]].response[1]]

GatherResults ==
    [i \in 1..Len(tasks) |-> tasks[i].response[1]]

\* return await asyncio.gather(*tasks): the list once every task has
\* returned, the exception as soon as one task has raised.
GatherReturns ==
    /\ Awaiting
    /\ IF \E i \in 1..Len(tasks) : tasks[i].pc = "raised"
         THEN \E i \in 1..Len(tasks) :
                /\ tasks[i].pc = "raised"
                /\ ret' = [op |-> "call_all_platforms", value |-> None,
                           raised |-> Some(tasks[i].exc[1].type)]
         ELSE /\ \A i \in 1..Len(tasks) : tasks[i].pc = "done"
              /\ ret' = [op |-> "call_all_platforms", value |-> Some(GatherResults),
                         raised |-> None]
    /\ UNCHANGED <<secret_key, chain, last_hash, now, tampered, callerVars, laterVars>>

(***************************************************************************)
(* SpecCaller: one fan-out of a fresh UniversalAICaller.                   *)
(***************************************************************************)
NextCaller ==
    \/ \E requested \in Requests : call_all_platforms(requested)
    \/ \E i \in 1..Len(tasks) : TaskStart(i)
    \/ \E i \in 1..Len(tasks) : \E status \in HttpStatuses : PostReturns(i, status)
    \/ \E i \in 1..Len(tasks) : \E exc \in UpstreamExceptions : PostRaises(i, exc)
    \/ \E i \in 1..Len(tasks) : \E body \in JsonBodies : JsonReturns(i, body)
    \/ \E i \in 1..Len(tasks) : \E exc \in UpstreamExceptions : JsonRaises(i, exc)
    \/ \E i \in 1..Len(tasks) : Exited(i)
    \/ \E i \in 1..Len(tasks) : Unwound(i)
    \/ GatherReturns

SpecCaller == InitCaller /\ [][NextCaller]_vars

(***************************************************************************)
(* backend/middleware.py : RateLimitMiddleware                             *)
(*                                                                         *)
(* A str is a sequence of one-character strings, so that the key           *)
(* f"{client_ip}:{current_minute}" and k.endswith(current_minute) are      *)
(* computed on characters.  In SpecRate the clock counts minutes from      *)
(* 2025-11-03 01:00 UTC.  dispatch has no await between reading the        *)
(* counter and calling the downstream handler, and the handler does not    *)
(* touch the counters: one action is one dispatch.                         *)
(***************************************************************************)
DigitChar == <<"0", "1", "2", "3", "4", "5", "6", "7", "8", "9">>

\* datetime.utcnow().strftime("%Y%m%d%H%M") at clock reading t
strftime_minute(t) ==
    <<"2", "0", "2", "5", "1", "1", "0", "3", "0", "1",
      DigitChar[(t \div 10) + 1], DigitChar[(t % 10) + 1]>>

\* request.client: None, or an address with a host
RateClients ==
    {None,
     Some(<<"1", "0", ".", "0", ".", "0", ".", "1">>),
     Some(<<":", ":", "1">>)}

\* request.client.host if request.client else "unknown"
client_ip(client) ==
    IF client # None THEN client[1] ELSE <<"u", "n", "k", "n", "o", "w", "n">>

\* f"{client_ip}:{current_minute}"
RateKey(ip, current_minute) == ip \o <<":">> \o current_minute

\* k.endswith(suffix)
EndsWith(k, suffix) ==
    /\ Len(k) >= Len(suffix)
    /\ SubSeq(k, Len(k) - Len(suffix) + 1, Len(k)) = suffix

\* d.get(key, 0)
DictGet0(d, key) == IF key \in DOMAIN d THEN d[key] ELSE 0

\* d[key] = value
DictSet(d, key, value) ==
    [k \in DOMAIN d \cup {key} |-> IF k = key THEN value ELSE d[k]]

cleanup_keeps_all(counts, current_minute) == counts

\* _cleanup_old_entries
cleanup_old_entries(counts, current_minute) ==
    [k \in {j \in DOMAIN counts : EndsWith(j, current_minute)} |-> counts[k]]

OverLimitStrict(count, limit) == count > limit

\* if count >= self.requests_per_minute
OverLimit(count, limit) == count >= limit

\* The 429 response
RateLimitExceeded ==
    [status_code |-> 429,
     content     |-> [error |-> "Rate limit exceeded", retry_after_seconds |-> 60],
     media_type  |-> "application/json"]

\* What the downstream handler answers.
DownstreamResponses ==
    {[status_code |-> s,
      content     |-> [error |-> "none", retry_after_seconds |-> 0],
      media_type  |-> "application/json"] : s \in {200, 404}}

MaxLimit == 2    \* requests_per_minute is 0..MaxLimit

\* RateLimitMiddleware.dispatch
rate_dispatch(client) ==
    /\ \E t \in now..MaxClock :
         LET current_minute == strftime_minute(t)
             key == RateKey(client_ip(client), current_minute)
             count == DictGet0(request_counts, key)
             args == [client |-> client, minute |-> t]
         IN /\ now' = t
            /\ IF OverLimit(count, requests_per_minute)
                 THEN /\ ret' = [op |-> "rate_dispatch", args |-> args,
                                 forwarded |-> FALSE, response |-> RateLimitExceeded]
                      /\ UNCHANGED <<request_counts, forwarded>>
                 ELSE /\ request_counts' =
                            cleanup_old_entries(DictSet(request_counts, key, count + 1),
                                                current_minute)
                      /\ forwarded' = DictSet(forwarded, <<client, t>>,
                                              DictGet0(forwarded, <<client, t>>) + 1)
                      /\ \E response \in DownstreamResponses :
                            ret' = [op |-> "rate_dispatch", args |-> args,
                                    forwarded |-> TRUE, response |-> response]
    /\ UNCHANGED <<secret_key, chain, last_hash, tampered, callerVars, requests_per_minute,
                   httpVars, hwVars, spVars>>

\* RateLimitMiddleware.__init__ with requests_per_minute = limit
InitRate ==
    /\ HasherInit(None)
    /\ now = 0
    /\ ret = [op |-> "init", value |-> None]
    /\ tampered = "none"
    /\ CallerIdle
    /\ \E limit \in 0..MaxLimit : requests_per_minute = limit
    /\ request_counts = <<>>
    /\ forwarded = <<>>
    /\ HttpIdle /\ HwIdle /\ SpIdle

NextRate == \E client \in RateClients : rate_dispatch(client)

SpecRate == InitRate /\ [][NextRate]_vars

(***************************************************************************)
(* backend/middleware.py : AuditMiddleware                                 *)
(*                                                                         *)
(* dispatch keeps no state of its own: SpecAuditMw starts with a request   *)
(* at hand and one step is one dispatch on it, the downstream handler      *)
(* either returning a response or raising.                                 *)
(***************************************************************************)
HexLower == <<"0", "1", "2", "3", "4", "5", "6", "7", "8", "9",
              "a", "b", "c", "d", "e", "f">>

HexUpper == <<"0", "1", "2", "3", "4", "5", "6", "7", "8", "9",
              "A", "B", "C", "D", "E", "F">>

\* str.upper() on the characters that occur here
UpperChar(ch) ==
    IF \E i \in 1..Len(HexLower) : HexLower[i] = ch
        THEN HexUpper[CHOOSE i \in 1..Len(HexLower) : HexLower[i] = ch]
    ELSE ch

Upper(str) == [i \in 1..Len(str) |-> UpperChar(str[i])]

\* str(uuid.uuid4()) of 32 hex digits h: 8-4-4-4-12, lower case
UuidText(h) ==
    SubSeq(h, 1, 8) \o <<"-">> \o SubSeq(h, 9, 12) \o <<"-">> \o SubSeq(h, 13, 16)
        \o <<"-">> \o SubSeq(h, 17, 20) \o <<"-">> \o SubSeq(h, 21, 32)

\* Some values uuid4 can draw.
Uuid4Values ==
    {[i \in 1..32 |-> HexLower[((i * k) % 16) + 1]] : k \in {0, 3, 7, 15}}

\* f"ENDO-{str(uuid.uuid4())[:8].upper()}"
generate_request_id(h) ==
    <<"E", "N", "D", "O", "-">> \o Upper(SubSeq(UuidText(h), 1, 8))

RequestIdAlwaysGenerated(headers, generated) == generated

\* request.headers.get("X-Request-ID", generated)
RequestIdOf(headers, generated) ==
    IF "X-Request-ID" \in DOMAIN headers THEN headers["X-Request-ID"] ELSE generated

AUDIT_CITATION == "Viduya Family Legacy Glyph (C) 2025"

\* hashlib.sha256(json.dumps(audit_data, sort_keys=True).encode()).hexdigest()
AuditMwHash(audit_data) ==
    [hexlen |-> HexDigestLen, algo |-> "sha256", pre |-> <<"json", audit_data>>]

\* response.headers[...] = ... for the four headers
WithAuditHeaders(headers, request_id, audit_hash, process_time) ==
    [h \in DOMAIN headers
            \cup {"X-Request-ID", "X-Audit-Hash", "X-Process-Time", "X-Citation"} |->
        CASE h = "X-Request-ID" -> request_id
          [] h = "X-Audit-Hash" -> audit_hash
          [] h = "X-Process-Time" -> <<"%.4fs", process_time>>
          [] h = "X-Citation" -> AUDIT_CITATION
          [] OTHER -> headers[h]]

\* Requests: with or without an X-Request-ID header (an empty one, one in
\* lower case), with or without a client address.
MwRequestHeaders ==
    {("accept" :> <<"*">>),
     ("accept" :> <<"*">>) @@ ("X-Request-ID" :> <<>>),
     ("accept" :> <<"*">>) @@ ("X-Request-ID" :> <<"a", "b", "c", "-", "1">>)}

MwRequests ==
    {[headers |-> h, client |-> c, method |-> m, path |-> p] :
        h \in MwRequestHeaders,
        c \in {None, Some(<<"1", "0", ".", "0", ".", "0", ".", "1">>)},
        m \in {"GET", "POST"},
        p \in {"/health", "/api/v1/assessments/"}}

\* What call_next does: the handler's response, or its exception.
MwHandlerOutcomes ==
    {[raised |-> None,
      response |-> Some([status_code |-> s,
                         headers |-> ("content-type" :> <<"application/json">>)])]
        : s \in {200, 404, 422, 500}}
      \cup {[raised |-> Some("RuntimeError"), response |-> None]}

InitAuditMw ==
    /\ HasherInit(None)
    /\ now = 0
    /\ \E request \in MwRequests : ret = [op |-> "input", args |-> request]
    /\ tampered = "none"
    /\ CallerIdle
    /\ LaterIdle

\* AuditMiddleware.dispatch
audit_dispatch ==
    /\ ret.op = "input"
    /\ \E p \in ClockPairs : \E h \in Uuid4Values : \E outcome \in MwHandlerOutcomes :
         LET request == ret.args
             request_id == RequestIdOf(request.headers, generate_request_id(h))
             ip == client_ip(request.client)
             process_time == p[2] - p[1]
         IN /\ now' = p[2]
            /\ IF outcome.raised # None
                 THEN ret' = [op |-> "audit_dispatch", args |-> request,
                              handler_calls |-> 1, handler |-> outcome,
                              raised |-> outcome.raised, response |-> None]
                 ELSE LET handled == outcome.response[1]
                          audit_data ==
                              [request_id      |-> request_id,
                               timestamp       |-> <<"isoformat", p[2]>>,
                               method          |-> request.method,
                               path            |-> request.path,
                               client_ip       |-> ip,
                               status_code     |-> handled.status_code,
                               process_time_ms |-> process_time * 1000]
                      IN ret' = [op |-> "audit_dispatch", args |-> request,
                                 handler_calls |-> 1, handler |-> outcome,
                                 raised |-> None,
                                 response |-> Some([handled EXCEPT !.headers =
                                     WithAuditHeaders(@, request_id,
                                         AuditMwHash(audit_data), process_time)])]
    /\ UNCHANGED <<secret_key, chain, last_hash, tampered, callerVars, laterVars>>

NextAuditMw == audit_dispatch

SpecAuditMw == InitAuditMw /\ [][NextAuditMw]_vars

(***************************************************************************)
(* backend/routers/evg.py : POST /evg/process                              *)
(*                                                                         *)
(* One action is one request.  The EDFProcessor, its calculator and its    *)
(* hasher are made for the request inside process_patient_edf and dropped  *)
(* with it; what outlives the request is the temporary file.               *)
(***************************************************************************)
EDF_SUFFIX == <<".", "e", "d", "f">>

\* file.filename of the upload
EvgFilenames ==
    {<<"a">> \o EDF_SUFFIX, EDF_SUFFIX, <<"a", ".", "t", "x", "t">>,
     <<"a", ".", "E", "D", "F">>}

\* notify_email
EvgNotify == {None, Some("dr@example.org")}

\* What happens to an upload that got past the extension check: it is read
\* and processed, reading it raises, or process_patient_edf raises (a file
\* that is no EDF file, or one with other than 6 channels).
EvgOutcomes == {"processed", "read_raises", "processing_raises"}

MaxTmpFiles == 3    \* temporary file names at hand

\* tempfile.NamedTemporaryFile(delete=False, suffix='.edf').name
TmpNames == {<<"tmp", n, ".edf">> : n \in 1..MaxTmpFiles}

\* raise HTTPException(status_code=..., detail=...)
HTTPException(status_code, detail) == [status_code |-> status_code, detail |-> detail]

\* os.unlink(tmp_path) is reached: only when process_patient_edf returned
UnlinkReached(outcome) == outcome = "processed"

process_evg_file(filename, notify_email, outcome) ==
    /\ IF ~EndsWith(filename, EDF_SUFFIX)
         THEN /\ ret' = [op |-> "process_evg_file",
                         args |-> [filename |-> filename, notify_email |-> notify_email],
                         outcome |-> "rejected",
                         raised |-> Some(HTTPException(400,
                             "Invalid file format. Please upload a .edf file.")),
                         tmp_path |-> None,
                         background_tasks |-> <<>>]
              /\ UNCHANGED tmp_files
         ELSE \E tmp_path \in TmpNames \ tmp_files :
                /\ tmp_files' = IF UnlinkReached(outcome) THEN tmp_files \ {tmp_path}
                                ELSE tmp_files \cup {tmp_path}
                /\ ret' = [op |-> "process_evg_file",
                           args |-> [filename |-> filename, notify_email |-> notify_email],
                           outcome |-> outcome,
                           raised |-> IF outcome = "processed" THEN None
                                      ELSE Some(HTTPException(500, "Processing failed")),
                           tmp_path |-> Some(tmp_path),
                           background_tasks |->
                               IF outcome = "processed" /\ notify_email # None
                                   THEN <<<<"send_report_email", notify_email[1]>>>>
                               ELSE <<>>]
    /\ UNCHANGED <<secret_key, chain, last_hash, now, tampered, issued_ids,
                   callerVars, rateVars, hwVars, spVars>>

InitEvg ==
    /\ HasherInit(None)
    /\ now = 0
    /\ ret = [op |-> "init", value |-> None]
    /\ tampered = "none"
    /\ CallerIdle
    /\ LaterIdle

NextEvg ==
    \E filename \in EvgFilenames : \E notify_email \in EvgNotify :
        \E outcome \in EvgOutcomes : process_evg_file(filename, notify_email, outcome)

SpecEvg == InitEvg /\ [][NextEvg]_vars

(***************************************************************************)
(* backend/routers/assessments.py and patients.py                          *)
(*                                                                         *)
(* One action is one request: the validation of the body against the       *)
(* request model, then the handler body.  create_assessment makes its own  *)
(* LEIVCalculator, so in SpecApi the hasher variables are those of the     *)
(* calculator of the latest request that made one.  issued_ids is what     *)
(* the clients have been handed; the routers keep nothing.                 *)
(***************************************************************************)
\* EVGReading: electrode_index ge=1, le=6
ValidReading(r) == r.electrode_index >= 1 /\ r.electrode_index <= NUM_ELECTRODES

\* Optional[int] with ge/le
OptionalInRange(x, lo, hi) == x = None \/ (x[1] >= lo /\ x[1] <= hi)

ValidIgnoringCount(body) ==
    /\ \A i \in 1..Len(body.evg_readings) : ValidReading(body.evg_readings[i])
    /\ OptionalInRange(body.cycle_day, 1, 35)
    /\ OptionalInRange(body.v_caw_hour, 0, 96)

\* AssessmentRequest: evg_readings min_length=6, max_length=6; cycle_day
\* ge=1, le=35; v_caw_hour ge=0, le=96
ValidAssessmentRequest(body) ==
    /\ Len(body.evg_readings) >= NUM_ELECTRODES
    /\ Len(body.evg_readings) <= NUM_ELECTRODES
    /\ \A i \in 1..Len(body.evg_readings) : ValidReading(body.evg_readings[i])
    /\ OptionalInRange(body.cycle_day, 1, 35)
    /\ OptionalInRange(body.v_caw_hour, 0, 96)

\* sorted(readings, key=lambda x: x.electrode_index): stable, by index
RECURSIVE SortedByIndex(_, _)
SortedByIndex(readings, k) ==
    IF k > NUM_ELECTRODES THEN <<>>
    ELSE SelectSeq(readings, LAMBDA r : r.electrode_index = k)
             \o SortedByIndex(readings, k + 1)

\* [sp.Rational(str(r.radial_distance)) for r in sorted(...)], the
\* distances being thousandths
RadialDistancesOf(body) ==
    LET sorted == SortedByIndex(body.evg_readings, 1) IN
    [ks |-> [i \in 1..Len(sorted) |-> sorted[i].radial_distance], e |-> 3]

\* _get_next_steps
get_next_steps(stage, confidence) ==
    LET steps ==
          IF stage = "healthy"
              THEN <<"Continue routine monitoring", "Annual follow-up recommended">>
          ELSE IF stage = "stage_0_early"
              THEN <<"96-hour V-CAW EVG confirmation",
                     "Saliva miRNA panel (selected biomarkers)",
                     "Gynecology specialist referral",
                     "Consider medical management trial">>
          ELSE <<"Immediate specialist referral",
                 "TVUS/MRI imaging recommended",
                 "Laparoscopic evaluation discussion",
                 "Pain management consultation">>
    IN IF SciLess(confidence, Whole(80))
           THEN <<"Repeat assessment recommended (low confidence)">> \o steps
       ELSE steps

\* The AssessmentResponse built from the LEIVResult.
AssessmentResponse(assessment_id, body, result) ==
    [assessment_id      |-> assessment_id,
     patient_id         |-> body.patient_id,
     lei_v              |-> ToFloat(result.lei_v_value),
     lei_v_symbolic     |-> Str(result.lei_v_symbolic),
     stage              |-> result.stage,
     confidence_percent |-> result.confidence_percent,
     platform_results   |-> None,
     ensemble_consensus |-> None,
     next_steps         |-> get_next_steps(result.stage, result.confidence_percent),
     timestamp          |-> result.timestamp,
     audit_hash         |-> result.audit_hash,
     citation           |-> CITATION]

\* The uuid4 values the routers draw.
ApiUuid4Values == {[i \in 1..32 |-> HexLower[((i * k) % 16) + 1]] : k \in {3, 15}}

\* Request bodies: n readings whose electrode indices run down from 6, or
\* run up from 0 (out of range), or run up from 1 with electrode 1 twice;
\* thousandths as distances.
ReadingsOf(n, pattern) ==
    [i \in 1..n |->
        [electrode_index |->
             CASE pattern = "down" ->
                      IF i <= NUM_ELECTRODES THEN NUM_ELECTRODES + 1 - i ELSE 1
               [] pattern = "bad_index" -> i - 1
               [] pattern = "repeated" -> IF i = 1 THEN 1 ELSE i - 1,
         radial_distance |-> 430 + i]]

AssessmentBodies ==
    {[patient_id        |-> "ENDO-2025-001",
      evg_readings      |-> ReadingsOf(n, pattern),
      cycle_day         |-> cycle_day,
      v_caw_hour        |-> None,
      request_ai_fusion |-> fusion] :
        n \in (NUM_ELECTRODES - 1)..MaxRadii,
        pattern \in {"down", "bad_index"},
        cycle_day \in {Some(14), Some(36)},
        fusion \in BOOLEAN}
    \cup
    {[patient_id        |-> "ENDO-2025-001",
      evg_readings      |-> ReadingsOf(NUM_ELECTRODES, "repeated"),
      cycle_day         |-> Some(14),
      v_caw_hour        |-> None,
      request_ai_fusion |-> TRUE]}

\* POST /assessments
create_assessment(body) ==
    /\ IF ~ValidAssessmentRequest(body)
         THEN /\ ret' = [op |-> "create_assessment", args |-> body, status_code |-> 422,
                         calculator_calls |-> 0, value |-> None,
                         background_tasks |-> <<>>]
              /\ UNCHANGED <<chain, last_hash, now, issued_ids>>
         ELSE LET rs == RadialDistancesOf(body) IN
              IF WrongCount(rs)
                THEN /\ ret' = [op |-> "create_assessment", args |-> body,
                                status_code |-> 500, calculator_calls |-> 1,
                                value |-> None, background_tasks |-> <<>>]
                     /\ chain' = <<>>
                     /\ last_hash' = GENESIS_HASH
                     /\ UNCHANGED <<now, issued_ids>>
                ELSE \E p \in ClockTriples : \E h \in ApiUuid4Values :
                       LET entry == NewEntry(None, GENESIS_HASH,
                                        AuditDataOf(rs, body.patient_id, body.cycle_day,
                                                    body.v_caw_hour, p[1]), p[2], p[3])
                           result == LEIVResult(rs, body.patient_id, body.cycle_day,
                                                body.v_caw_hour, p[1], ResultHash(entry))
                           response == AssessmentResponse(UuidText(h), body, result)
                       IN /\ chain' = ChainAfter(<<>>, entry)
                          /\ last_hash' = entry.entry_hash
                          /\ now' = p[3]
                          /\ issued_ids' = issued_ids \cup {response.assessment_id}
                          /\ ret' = [op |-> "create_assessment", args |-> body,
                                     status_code |-> 200, calculator_calls |-> 1,
                                     value |-> Some(response),
                                     background_tasks |->
                                         IF body.request_ai_fusion
                                             THEN <<<<"_run_ai_fusion",
                                                      response.assessment_id>>>>
                                         ELSE <<>>]
    /\ UNCHANGED <<secret_key, tampered, tmp_files, callerVars, rateVars, hwVars, spVars>>

\* PatientCreate: cycle_length_days ge=21, le=40
ValidPatientCreate(patient) == OptionalInRange(patient.cycle_length_days, 21, 40)

PatientBodies ==
    {[external_id |-> None, cycle_length_days |-> d, consent_version |-> "1.0"] :
        d \in {None, Some(28), Some(41)}}

\* f"ENDO-{datetime.utcnow().strftime('%Y')}-{str(uuid.uuid4())[:8].upper()}"
NewPatientId(h) ==
    <<"E", "N", "D", "O", "-", "2", "0", "2", "5", "-">>
        \o Upper(SubSeq(UuidText(h), 1, 8))

\* POST /patients
register_patient(patient) ==
    /\ IF ~ValidPatientCreate(patient)
         THEN /\ ret' = [op |-> "register_patient", args |-> patient,
                         status_code |-> 422, value |-> None]
              /\ UNCHANGED <<now, issued_ids>>
         ELSE \E t \in now..MaxClock : \E h \in ApiUuid4Values :
                /\ now' = t
                /\ issued_ids' = issued_ids \cup {NewPatientId(h)}
                /\ ret' = [op |-> "register_patient", args |-> patient,
                           status_code |-> 200,
                           value |-> Some([patient_id |-> NewPatientId(h),
                                           external_id |-> patient.external_id,
                                           cycle_length_days |->
                                               IF patient.cycle_length_days = None
                                                   THEN 28
                                               ELSE patient.cycle_length_days[1],
                                           created_at |-> t,
                                           consent_version |-> patient.consent_version,
                                           total_assessments |-> 0])]
    /\ UNCHANGED <<secret_key, chain, last_hash, tampered, tmp_files, callerVars, rateVars, hwVars, spVars>>

LookupFindsIssued(id, detail) ==
    IF id \in issued_ids
        THEN [raised |-> None, value |-> Some(id)]
    ELSE [raised |-> Some(HTTPException(404, detail)), value |-> None]

\* The body of each lookup: raise HTTPException(status_code=404, detail=...)
LookupOutcome(id, detail) ==
    [raised |-> Some(HTTPException(404, detail)), value |-> None]

\* GET /assessments/{id}, GET /patients/{id}, GET /patients/{id}/history,
\* DELETE /patients/{id}
LookupDetail ==
    [get_assessment      |-> "Assessment not found",
     get_patient         |-> "Patient not found",
     get_patient_history |-> "Patient not found",
     delete_patient      |-> "Patient not found"]

\* The ids a client asks for: any it was handed, and one nobody was.
LookupIds == issued_ids \cup {<<"n", "o", "n", "e">>}

lookup(op, id) ==
    /\ ret' = [op |-> op, args |-> id,
               raised |-> LookupOutcome(id, LookupDetail[op]).raised,
               value |-> LookupOutcome(id, LookupDetail[op]).value]
    /\ UNCHANGED <<secret_key, chain, last_hash, now, tampered, httpVars,
                   callerVars, rateVars, hwVars, spVars>>

InitApi ==
    /\ HasherInit(None)
    /\ now = 0
    /\ ret = [op |-> "init", value |-> None]
    /\ tampered = "none"
    /\ CallerIdle
    /\ LaterIdle

NextApi ==
    \/ \E body \in AssessmentBodies : create_assessment(body)
    \/ \E patient \in PatientBodies : register_patient(patient)
    \/ \E op \in DOMAIN LookupDetail : \E id \in LookupIds : lookup(op, id)

SpecApi == InitApi /\ [][NextApi]_vars

(***************************************************************************)
(* hardware/openbci_evg.py: the OpenBCI Cyton driver                       *)
(*                                                                         *)
(* A bytes value is a sequence of byte values 0..255.  The control calls   *)
(* are made by one task, one after the other; read_samples is an async     *)
(* generator consumed by another task, so a control call suspended in      *)
(* writer.drain() and a packet read in flight can interleave.  A value     *)
(* that Python types at run time is a record [type, v].                    *)
(***************************************************************************)
CYTON_CHANNELS == 8
RSL_CHANNELS == 6
SYNC_BYTE == 160
PACKET_LEN == 33
GAIN_24 == 24

CMD_STREAM_START == <<98>>                                      \* b'b'
CMD_STREAM_STOP == <<115>>                                      \* b's'
CMD_SOFT_RESET == <<118>>                                       \* b'v'
CMD_CHANNEL_OFF ==                                              \* b'1234567890qwer'
    <<49, 50, 51, 52, 53, 54, 55, 56, 57, 48, 113, 119, 101, 114>>
CMD_CHANNEL_ON ==                                               \* b'!@#$%^&*()QWER'
    <<33, 64, 35, 36, 37, 94, 38, 42, 40, 41, 81, 87, 69, 82>>

\* b[i] on a bytes object: an int
BytesIndex(b, i) == [type |-> "int", v |-> b[i + 1]]

\* ord(x): the code point of a string of length 1, TypeError for anything
\* else
Ord(x) ==
    IF x.type = "str"
        THEN [raised |-> None, value |-> x.v]
    ELSE [raised |-> Some("TypeError"), value |-> 0]

\* _send_command: writer.write(cmd) when a link is held
send_command(link, w, cmd) == IF link # None THEN w \o cmd ELSE w

\* _configure_channels from iteration i on, w being the bytes written so
\* far: [raised, written]
RECURSIVE configure_channels(_, _, _)
configure_channels(link, i, w) ==
    IF i >= CYTON_CHANNELS THEN [raised |-> None, written |-> w]
    ELSE LET code == IF i < RSL_CHANNELS
                         THEN Ord(BytesIndex(CMD_CHANNEL_ON, i))
                     ELSE Ord(BytesIndex(CMD_CHANNEL_OFF, i))
         IN IF code.raised # None
                THEN [raised |-> code.raised, written |-> w]
            ELSE configure_channels(link, i + 1, send_command(link, w, <<code.value>>))

MaxWritten == 3
MaxSamples == 2

HwRet(op, args, raised, value, wrote) ==
    [op |-> op, args |-> args, raised |-> raised, value |-> value, wrote |-> wrote]

hwFrame == <<secret_key, chain, last_hash, tampered, callerVars, rateVars, httpVars, spVars>>

\* connect(): outcome says whether serial_asyncio opens the port
connect(outcome) ==
    /\ pending = "none"
    /\ Len(written) < MaxWritten
    /\ IF outcome = "open_raises"
         THEN /\ ret' = HwRet("connect", outcome, None, <<"False">>, <<>>)
              /\ UNCHANGED <<serial, written>>
         ELSE LET link == Some("link")
                  reset == send_command(link, <<>>, CMD_SOFT_RESET)
                  done == configure_channels(link, 0, reset)
              IN /\ serial' = link
                 /\ written' = written \o done.written
                 /\ ret' = HwRet("connect", outcome, None,
                                 IF done.raised = None THEN <<"True">> ELSE <<"False">>,
                                 done.written)
    /\ UNCHANGED <<now, streaming, sample_count, emitted, reader_pc, pending, hwFrame>>

\* start_streaming() up to its await of writer.drain()
start_streaming ==
    /\ pending = "none"
    /\ Len(written) < MaxWritten
    /\ IF serial = None
         THEN /\ ret' = HwRet("start_streaming", "", Some("RuntimeError"), None, <<>>)
              /\ UNCHANGED <<written, pending>>
         ELSE /\ written' = send_command(serial, written, CMD_STREAM_START)
              /\ pending' = "start_streaming"
              /\ ret' = HwRet("start_streaming", "", None, None, CMD_STREAM_START)
    /\ UNCHANGED <<now, serial, streaming, sample_count, emitted, reader_pc, hwFrame>>

\* stop_streaming() up to its await, or to its end when no link is held
stop_streaming ==
    /\ pending = "none"
    /\ Len(written) < MaxWritten
    /\ IF serial # None
         THEN /\ written' = send_command(serial, written, CMD_STREAM_STOP)
              /\ pending' = "stop_streaming"
              /\ ret' = HwRet("stop_streaming", "", None, None, CMD_STREAM_STOP)
              /\ UNCHANGED streaming
         ELSE /\ streaming' = FALSE
              /\ ret' = HwRet("stop_streaming", "returned", None, None, <<>>)
              /\ UNCHANGED <<written, pending>>
    /\ UNCHANGED <<now, serial, sample_count, emitted, reader_pc, hwFrame>>

\* disconnect() up to the await inside its stop_streaming(), or to its end
disconnect ==
    /\ pending = "none"
    /\ Len(written) < MaxWritten
    /\ IF streaming /\ serial # None
         THEN /\ written' = send_command(serial, written, CMD_STREAM_STOP)
              /\ pending' = "disconnect"
              /\ ret' = HwRet("disconnect", "", None, None, CMD_STREAM_STOP)
              /\ UNCHANGED <<serial, streaming>>
         ELSE /\ streaming' = FALSE
              /\ serial' = None
              /\ ret' = HwRet("disconnect", "returned", None, None, <<>>)
              /\ UNCHANGED <<written, pending>>
    /\ UNCHANGED <<now, sample_count, emitted, reader_pc, hwFrame>>

\* writer.drain() returns to the suspended control call, which runs to its
\* end
drained ==
    /\ pending # "none"
    /\ streaming' = (pending = "start_streaming")
    /\ serial' = IF pending = "disconnect" THEN None ELSE serial
    /\ pending' = "none"
    /\ ret' = HwRet(pending, "returned", None, None, <<>>)
    /\ UNCHANGED <<now, sample_count, written, emitted, reader_pc, hwFrame>>

\* struct.unpack('>i', b4)[0]: big-endian signed 32-bit
unpack_be_i32(b4) ==
    (IF b4[1] >= 128 THEN b4[1] - 256 ELSE b4[1]) * 16777216
        + b4[2] * 65536 + b4[3] * 256 + b4[4]

\* (raw * 4.5) / (gain * 2**23) * 1e6, kept as its exact factors
MicroVolts(raw, gain) ==
    [counts |-> raw, volts_ref_tenths |-> 45, full_scale |-> gain * 8388608,
     micro |-> 1000000]

SyncNeverRejected(packet) == FALSE

\* if packet[0] != 0xA0
sync_rejected(packet) == packet[1] # SYNC_BYTE

\* _parse_packet on a 33-byte packet: [sample, sample_count]
parse_packet(packet, count, t) ==
    IF sync_rejected(packet) THEN [sample |-> None, sample_count |-> count]
    ELSE LET n == count + 1
             channel(i) ==
                 LET offset == 2 + (i * 3)
                     raw == unpack_be_i32(<<0>> \o SubSeq(packet, offset + 1, offset + 3))
                 IN [channel_index  |-> i + 1,
                     value_uv       |-> MicroVolts(raw, GAIN_24),
                     impedance_ohms |-> None,
                     timestamp      |-> t,
                     sample_number  |-> n]
         IN [sample |-> Some([channels      |-> [k \in 1..RSL_CHANNELS |-> channel(k - 1)],
                              timestamp     |-> t,
                              sample_number |-> n,
                              v_caw_hour    |-> None,
                              cycle_day     |-> None,
                              audit_hash    |-> None]),
             sample_count |-> n]

\* A packet of len bytes: the header byte, the board's sample number, the
\* channel data (channel 1 carries triple, the others vary its last byte),
\* then aux bytes and the footer.
PacketOf(len, header, triple) ==
    [i \in 1..len |->
        IF i = 1 THEN header
        ELSE IF i = 2 THEN 7
        ELSE IF i <= 2 + 3 * CYTON_CHANNELS
            THEN IF (i - 3) % 3 = 2
                     THEN (triple[3] + ((i - 3) \div 3)) % 256
                 ELSE triple[((i - 3) % 3) + 1]
        ELSE IF i = PACKET_LEN THEN 192
        ELSE 0]

\* The loop test of read_samples: read again or end
LoopPc == IF streaming THEN "awaiting" ELSE "done"

\* read_samples(): the consumer asks a new generator for its first sample
read_samples ==
    /\ reader_pc \in {"none", "done"}
    /\ IF serial = None
         THEN /\ reader_pc' = "done"
              /\ ret' = HwRet("read_samples", "", Some("RuntimeError"), None, <<>>)
         ELSE /\ reader_pc' = LoopPc
              /\ ret' = HwRet("read_samples", "", None, None, <<>>)
    /\ UNCHANGED <<now, serial, streaming, sample_count, written, emitted, pending,
                   hwFrame>>

\* reader.read(33) returns packet: parse, then yield or loop
read_returns(packet) ==
    /\ reader_pc = "awaiting"
    /\ \E t \in now..MaxClock :
         LET parsed == IF Len(packet) = PACKET_LEN
                           THEN parse_packet(packet, sample_count, t)
                       ELSE [sample |-> None, sample_count |-> sample_count]
         IN /\ now' = IF Len(packet) = PACKET_LEN /\ packet[1] = SYNC_BYTE THEN t ELSE now
            /\ sample_count' = parsed.sample_count
            /\ emitted' = IF parsed.sample # None
                              THEN Append(emitted, parsed.sample[1])
                          ELSE emitted
            /\ reader_pc' = IF parsed.sample # None THEN "yielded" ELSE LoopPc
            /\ ret' = HwRet("read_returns", packet, None, parsed.sample, <<>>)
    /\ Len(emitted') <= MaxSamples
    /\ UNCHANGED <<serial, streaming, written, pending, hwFrame>>

\* the consumer asks for the next sample
next_sample ==
    /\ reader_pc = "yielded"
    /\ reader_pc' = LoopPc
    /\ ret' = HwRet("next_sample", "", None, None, <<>>)
    /\ UNCHANGED <<now, serial, streaming, sample_count, written, emitted, pending,
                   hwFrame>>

\* the consuming task is cancelled (CancelledError in the read: break) or
\* closes the generator at the yield
read_cancelled ==
    /\ reader_pc \in {"awaiting", "yielded"}
    /\ reader_pc' = "done"
    /\ ret' = HwRet("read_cancelled", "", None, None, <<>>)
    /\ UNCHANGED <<now, serial, streaming, sample_count, written, emitted, pending,
                   hwFrame>>

HwPackets ==
    {PacketOf(len, header, triple) :
        len \in {0, PACKET_LEN - 1, PACKET_LEN},
        header \in {SYNC_BYTE, 0},
        triple \in {<<0, 0, 1>>, <<255, 255, 250>>}}

InitHw ==
    /\ HasherInit(None)
    /\ now = 0
    /\ ret = [op |-> "init", value |-> None]
    /\ tampered = "none"
    /\ CallerIdle
    /\ LaterIdle

NextHw ==
    \/ \E outcome \in {"opens", "open_raises"} : connect(outcome)
    \/ start_streaming
    \/ stop_streaming
    \/ disconnect
    \/ drained
    \/ read_samples
    \/ \E packet \in HwPackets : read_returns(packet)
    \/ next_sample
    \/ read_cancelled

SpecHw == InitHw /\ [][NextHw]_vars

\* _parse_packet alone, on one packet drawn at the start.
ParsePackets ==
    {PacketOf(PACKET_LEN, header, <<b1, b2, b3>>) :
        header \in {SYNC_BYTE, 65},
        b1 \in {0, 1, 127, 128, 255}, b2 \in {0, 255}, b3 \in {0, 1, 250}}

InitParse ==
    /\ HasherInit(None)
    /\ now = 0
    /\ \E packet \in ParsePackets : ret = [op |-> "input", args |-> packet]
    /\ tampered = "none"
    /\ CallerIdle
    /\ LaterIdle

parse_packet_call ==
    /\ ret.op = "input"
    /\ \E t \in now..MaxClock :
         LET parsed == parse_packet(ret.args, sample_count, t) IN
         /\ now' = IF parsed.sample # None THEN t ELSE now
         /\ sample_count' = parsed.sample_count
         /\ ret' = [op |-> "_parse_packet", args |-> ret.args, value |-> parsed.sample]
    /\ UNCHANGED <<serial, streaming, written, emitted, reader_pc, pending, hwFrame>>

NextParse == parse_packet_call

SpecParse == InitParse /\ [][NextParse]_vars

(***************************************************************************)
(* ai_integrations/bayesian_fusion.py: BayesianFusionEngine                *)
(*                                                                         *)
(* A float is the exact fraction [n, d] in lowest terms, d > 0.  A label   *)
(* that is searched for substrings is a sequence of characters.  The       *)
(* engine's AuditHasher is the hasher of the audit variables.              *)
(***************************************************************************)
Fr(n, d) == LET g == GCD(Abs(n), d) IN [n |-> n \div g, d |-> d \div g]

FrMul(a, b) ==
    LET g1 == GCD(Abs(a.n), b.d)
        g2 == GCD(Abs(b.n), a.d)
    IN IF a.n = 0 \/ b.n = 0 THEN Fr(0, 1)
       ELSE Fr((a.n \div g1) * (b.n \div g2), (a.d \div g2) * (b.d \div g1))

FrAdd(a, b) ==
    LET g == GCD(a.d, b.d)
    IN Fr(a.n * (b.d \div g) + b.n * (a.d \div g), (a.d \div g) * b.d)

FrDiv(a, b) == FrMul(a, [n |-> b.d, d |-> b.n])

\* n1/d1 < n2/d2 for non-negative fractions, by their continued fractions
RECURSIVE LessBy(_, _, _, _)
LessBy(n1, d1, n2, d2) ==
    IF n1 \div d1 # n2 \div d2 THEN n1 \div d1 < n2 \div d2
    ELSE IF n2 % d2 = 0 THEN FALSE
    ELSE IF n1 % d1 = 0 THEN TRUE
    ELSE LessBy(d2, n2 % d2, d1, n1 % d1)

FrLess(a, b) == LessBy(a.n, a.d, b.n, b.d)

FrMin(a, b) == IF FrLess(b, a) THEN b ELSE a

AsciiLower == <<"a", "b", "c", "d", "e", "f", "g", "h", "i", "j", "k", "l", "m",
                "n", "o", "p", "q", "r", "s", "t", "u", "v", "w", "x", "y", "z">>

AsciiUpper == <<"A", "B", "C", "D", "E", "F", "G", "H", "I", "J", "K", "L", "M",
                "N", "O", "P", "Q", "R", "S", "T", "U", "V", "W", "X", "Y", "Z">>

Letters == 1..Len(AsciiLower)

\* The lower-case letter of each upper-case one, and the reverse.
ToLower ==
    [ch \in {AsciiUpper[i] : i \in Letters} |->
        AsciiLower[CHOOSE i \in Letters : AsciiUpper[i] = ch]]

ToUpper ==
    [ch \in {AsciiLower[i] : i \in Letters} |->
        AsciiUpper[CHOOSE i \in Letters : AsciiLower[i] = ch]]

LowerChar(ch) == IF ch \in DOMAIN ToLower THEN ToLower[ch] ELSE ch

TitleChar(ch) == IF ch \in DOMAIN ToUpper THEN ToUpper[ch] ELSE ch

\* str.lower()
RECURSIVE Lower(_)
Lower(str) ==
    IF str = <<>> THEN <<>>
    ELSE <<LowerChar(Head(str))>> \o Lower(Tail(str))

\* sub in str
Contains(str, sub) ==
    \E i \in 0..(Len(str) - Len(sub)) :
        /\ str[i + 1] = sub[1]
        /\ SubSeq(str, i + 1, i + Len(sub)) = sub

\* str.replace('_', ' ').title(): a cased character is upper case after an
\* uncased one and lower case after a cased one
Title(str) ==
    LET spaced == [i \in 1..Len(str) |-> IF str[i] = "_" THEN " " ELSE str[i]]
        cased(ch) == ch \in DOMAIN ToLower \/ ch \in DOMAIN ToUpper
    IN [i \in 1..Len(spaced) |->
           IF i > 1 /\ cased(spaced[i - 1])
               THEN LowerChar(spaced[i])
           ELSE TitleChar(spaced[i])]

\* The labels, as strings of characters.
Label ==
    [healthy            |-> <<"h", "e", "a", "l", "t", "h", "y">>,
     normal             |-> <<"n", "o", "r", "m", "a", "l">>,
     stage_0            |-> <<"s", "t", "a", "g", "e", "_", "0">>,
     early              |-> <<"e", "a", "r", "l", "y">>,
     minimal            |-> <<"m", "i", "n", "i", "m", "a", "l">>,
     stage_i            |-> <<"s", "t", "a", "g", "e", "_", "i">>,
     mild               |-> <<"m", "i", "l", "d">>,
     stage_ii           |-> <<"s", "t", "a", "g", "e", "_", "i", "i">>,
     moderate           |-> <<"m", "o", "d", "e", "r", "a", "t", "e">>,
     stage_iii          |-> <<"s", "t", "a", "g", "e", "_", "i", "i", "i">>,
     stage_iv           |-> <<"s", "t", "a", "g", "e", "_", "i", "v">>,
     severe             |-> <<"s", "e", "v", "e", "r", "e">>,
     stage_0_early      |-> <<"s", "t", "a", "g", "e", "_", "0", "_", "e", "a", "r", "l", "y">>,
     stage_i_minimal    |-> <<"s", "t", "a", "g", "e", "_", "i", "_",
                              "m", "i", "n", "i", "m", "a", "l">>,
     stage_ii_mild      |-> <<"s", "t", "a", "g", "e", "_", "i", "i", "_", "m", "i", "l", "d">>,
     stage_iii_moderate |-> <<"s", "t", "a", "g", "e", "_", "i", "i", "i", "_",
                              "m", "o", "d", "e", "r", "a", "t", "e">>,
     stage_iv_severe    |-> <<"s", "t", "a", "g", "e", "_", "i", "v", "_",
                              "s", "e", "v", "e", "r", "e">>,
     Early              |-> <<"E", "a", "r", "l", "y">>,
     unclassified       |-> <<"u", "n", "c", "l", "a", "s", "s", "i", "f", "i", "e", "d">>]

\* STAGE_PRIORS.get(lei_v_stage, 0.5)
StagePrior(stage) ==
    CASE stage = Label.healthy -> Fr(5, 100)
      [] stage = Label.stage_0_early -> Fr(70, 100)
      [] stage = Label.stage_i_minimal -> Fr(85, 100)
      [] stage = Label.stage_ii_mild -> Fr(90, 100)
      [] stage = Label.stage_iii_moderate -> Fr(95, 100)
      [] stage = Label.stage_iv_severe -> Fr(98, 100)
      [] OTHER -> Fr(1, 2)

\* PLATFORM_RELIABILITY.get(platform, 0.5)
PlatformReliability(platform) ==
    CASE platform = "med_gemini" -> Fr(85, 100)
      [] platform = "aidoc" -> Fr(90, 100)
      [] platform = "tempus" -> Fr(75, 100)
      [] platform = "viz_ai" -> Fr(80, 100)
      [] platform = "openevidence" -> Fr(70, 100)
      [] OTHER -> Fr(1, 2)

\* _calculate_leiv_weight, lei_v in thousandths
calculate_leiv_weight(lei_v_milli, confidence) ==
    LET threshold_distance ==
            FrMin(Fr(Abs(lei_v_milli - Stage0Milli), 1000),
                  Fr(Abs(lei_v_milli - AdvancedMilli), 1000))
        clarity_factor == FrMin(Fr(1, 1), FrMul(threshold_distance, Fr(20, 1)))
    IN FrMul(Fr(confidence, 100), FrAdd(Fr(1, 2), FrMul(Fr(1, 2), clarity_factor)))

\* The chain of substring tests of _get_severity_level
SeverityOfLower(stage_lower) ==
    IF Contains(stage_lower, Label.healthy) \/ Contains(stage_lower, Label.normal) THEN 0
    ELSE IF \/ Contains(stage_lower, Label.stage_0)
            \/ Contains(stage_lower, Label.early)
            \/ Contains(stage_lower, Label.minimal) THEN 1
    ELSE IF Contains(stage_lower, Label.stage_i) \/ Contains(stage_lower, Label.mild) THEN 2
    ELSE IF Contains(stage_lower, Label.stage_ii) \/ Contains(stage_lower, Label.moderate)
        THEN 3
    ELSE IF \/ Contains(stage_lower, Label.stage_iii)
            \/ Contains(stage_lower, Label.stage_iv)
            \/ Contains(stage_lower, Label.severe) THEN 4
    ELSE 2

\* _get_severity_level
get_severity_level(stage) == SeverityOfLower(Lower(stage))

\* result.get("stage", result.get("classification", ""))
PlatformStage(result) ==
    IF "stage" \in DOMAIN result THEN result.stage
    ELSE IF "classification" \in DOMAIN result THEN result.classification
    ELSE <<>>

\* same severity = high, adjacent = medium, else low
ConcordanceOfDiff(diff) ==
    IF diff = 0 THEN Fr(1, 1)
    ELSE IF diff = 1 THEN Fr(7, 10)
    ELSE IF diff = 2 THEN Fr(4, 10)
    ELSE Fr(2, 10)

\* _calculate_concordance
calculate_concordance(platform, result, lei_v_stage) ==
    IF PlatformStage(result) = <<>> THEN Fr(1, 2)
    ELSE ConcordanceOfDiff(Abs(get_severity_level(lei_v_stage)
                                   - get_severity_level(PlatformStage(result))))

\* result.get("platform", "unknown")
PlatformOf(result) == IF "platform" \in DOMAIN result THEN result.platform ELSE "unknown"

\* result.get("confidence", 0.0) / 100.0
RawConf(result) == Fr(IF "confidence" \in DOMAIN result THEN result.confidence ELSE 0, 100)

\* The PlatformContribution built from the concordance of a result.
ContributionOf(platform, raw_conf, concordance) ==
    [platform              |-> platform,
     raw_confidence        |-> FrMul(raw_conf, Fr(100, 1)),
     concordance_with_leiv |-> concordance,
     adjusted_weight       |-> FrMul(PlatformReliability(platform), concordance),
     contribution_to_final |->
         FrMul(raw_conf, FrMul(PlatformReliability(platform), concordance))]

\* One turn of the loop of fuse over platform_results
Contribution(result, lei_v_stage) ==
    ContributionOf(PlatformOf(result), RawConf(result),
                   calculate_concordance(PlatformOf(result), result, lei_v_stage))

\* likelihood_product after the first k turns of the loop
RECURSIVE LikelihoodProduct(_, _)
LikelihoodProduct(contributions, k) ==
    IF k = 0 THEN Fr(1, 1)
    ELSE FrMul(LikelihoodProduct(contributions, k - 1),
               FrAdd(Fr(1, 1), contributions[k].contribution_to_final))

\* min(0.99, unnormalized_posterior / (unnormalized_posterior + 0.1))
Posterior(unnormalized) ==
    FrMin(Fr(99, 100), FrDiv(unnormalized, FrAdd(unnormalized, Fr(1, 10))))

StrengthByCountOnly(contributions, posterior) ==
    IF Len(contributions) >= 3 THEN "strong"
    ELSE IF Len(contributions) >= 2 /\ FrLess(Fr(75, 100), posterior) THEN "moderate"
    ELSE "weak"

\* the evidence strength rule of fuse
EvidenceStrength(contributions, posterior) ==
    IF Len(contributions) >= 3
          /\ \A i \in 1..Len(contributions) :
                 FrLess(Fr(7, 10), contributions[i].concordance_with_leiv)
        THEN "strong"
    ELSE IF Len(contributions) >= 2 /\ FrLess(Fr(75, 100), posterior) THEN "moderate"
    ELSE "weak"

\* "high" if posterior > 0.85 else "moderate" if posterior > 0.70 else "low"
ConfidenceQualifier(posterior) ==
    IF FrLess(Fr(85, 100), posterior) THEN <<"h", "i", "g", "h">>
    ELSE IF FrLess(Fr(70, 100), posterior) THEN Label.moderate
    ELSE <<"l", "o", "w">>

\* _determine_diagnosis
determine_diagnosis(lei_v_stage, posterior) ==
    Title(lei_v_stage) \o <<" ", "(">> \o ConfidenceQualifier(posterior)
        \o <<" ", "c", "o", "n", "f", "i", "d", "e", "n", "c", "e", ")", " ", "-", " ",
             "L", "E", "I", "-", "V", " ", "a", "n", "c", "h", "o", "r", "e", "d">>

\* posterior * 100
Percent(posterior) == Sci(posterior.n, posterior.d, -2)

\* The FusionResult fuse builds, before its audit hash.
FusionResult(lei_v_stage, prior, lei_v_contribution, contributions, posterior) ==
    [final_confidence          |-> Percent(posterior),
     final_diagnosis           |-> determine_diagnosis(lei_v_stage, posterior),
     lei_v_anchor_contribution |-> lei_v_contribution,
     platform_contributions    |-> contributions,
     prior_probability         |-> prior,
     posterior_probability     |-> posterior,
     evidence_strength         |-> EvidenceStrength(contributions, posterior),
     citation                  |-> CITATION]

\* fuse from the contributions on
FusedFrom(lei_v_stage, prior, lei_v_contribution, contributions) ==
    FusionResult(lei_v_stage, prior, lei_v_contribution, contributions,
                 Posterior(FrMul(lei_v_contribution,
                                 LikelihoodProduct(contributions, Len(contributions)))))

\* The contributions list after the loop
Contributions(platform_results, lei_v_stage) ==
    {[i \in 1..Len(platform_results) |-> Contribution(platform_results[i], lei_v_stage)]}

\* The FusionResult of fuse, before its audit hash.
Fused(lei_v_milli, lei_v_stage, lei_v_confidence, platform_results) ==
    CHOOSE result \in
        {FusedFrom(lei_v_stage, StagePrior(lei_v_stage),
                   FrMul(StagePrior(lei_v_stage),
                         calculate_leiv_weight(lei_v_milli, lei_v_confidence)),
                   contributions) :
            contributions \in Contributions(platform_results, lei_v_stage)} : TRUE

\* The platform results fuse is handed: two of the severity of
\* stage_0_early, one a level away and one without a stage.
FusionPlatformResults ==
    { [platform |-> "aidoc", confidence |-> 100, stage |-> Label.stage_0_early],
      [platform |-> "tempus", confidence |-> 80, classification |-> Label.Early],
      [platform |-> "viz_ai", confidence |-> 0, stage |-> Label.mild],
      [platform |-> "acme", confidence |-> 100] }

MaxFusionResults == 4

RECURSIVE ListsOfLen(_, _)
ListsOfLen(S, n) ==
    IF n = 0 THEN {<<>>}
    ELSE {Append(l, x) : l \in ListsOfLen(S, n - 1), x \in S}

ListsUpTo(S, n) == UNION {ListsOfLen(S, k) : k \in 0..n}

FusionAnchors ==
    { [lei_v |-> 43, stage |-> Label.stage_0_early, confidence |-> 90],
      [lei_v |-> 43, stage |-> Label.stage_0_early, confidence |-> 10],
      [lei_v |-> 130, stage |-> Label.stage_i_minimal, confidence |-> 100] }

FusionInputs ==
    {[lei_v_value |-> a.lei_v, lei_v_stage |-> a.stage, lei_v_confidence |-> a.confidence,
      platform_results |-> l] :
        a \in FusionAnchors, l \in ListsUpTo(FusionPlatformResults, MaxFusionResults)}

InitFusion ==
    /\ HasherInit(None)
    /\ now = 0
    /\ \E input \in FusionInputs : ret = [op |-> "input", args |-> input]
    /\ tampered = "none"
    /\ CallerIdle
    /\ LaterIdle

\* BayesianFusionEngine.fuse
fuse ==
    /\ ret.op = "input"
    /\ \E result \in {Fused(ret.args.lei_v_value, ret.args.lei_v_stage,
                            ret.args.lei_v_confidence, ret.args.platform_results)} :
       \E p \in ClockPairs :
         LET entry == NewEntry(secret_key, last_hash,
                          [lei_v       |-> ret.args.lei_v_value,
                           lei_v_stage |-> ret.args.lei_v_stage,
                           posterior   |-> result.posterior_probability,
                           platforms   |-> [i \in 1..Len(result.platform_contributions) |->
                                               result.platform_contributions[i].platform]],
                          p[1], p[2])
         IN /\ AppendEntry(entry)
            /\ now' = p[2]
            /\ ret' = [op |-> "fuse", args |-> ret.args, value |-> result,
                       audit_hash |-> entry.entry_hash]
    /\ UNCHANGED <<secret_key, tampered, callerVars, laterVars>>

NextFusion == fuse

SpecFusion == InitFusion /\ [][NextFusion]_vars

(***************************************************************************)
(* backend/routers/fhir.py: POST /validate                                 *)
(*                                                                         *)
(* A JSON value is a record tagged with its type; a JSON object is a       *)
(* function whose domain is the set of keys it has.                        *)
(***************************************************************************)
JsonNull == [type |-> "null"]
JsonStr(s) == [type |-> "str", s |-> s]
JsonInt(n) == [type |-> "int", n |-> n]

\* bool(value) of Python, on a JSON value
Truthy(value) ==
    CASE value.type = "null" -> FALSE
      [] value.type = "str"  -> value.s # ""
      [] value.type = "int"  -> value.n # 0

\* resource.get("resourceType")
ResourceTypeOf(resource) ==
    IF "resourceType" \in DOMAIN resource THEN resource["resourceType"] ELSE JsonNull

\* resource_type == "Observation"
IsObservation(resource_type) == resource_type.type = "str" /\ resource_type.s = "Observation"

\* required = ["status", "code", "subject"]
RequiredFields == <<"status", "code", "subject">>

\* Mutant of missing_fields: only status is looked for.
MissingStatusOnly(resource) ==
    IF "status" \in DOMAIN resource THEN <<>> ELSE <<"status">>

\* The fields the loop over required finds absent, in the order of the loop
missing_fields(resource) ==
    LET absent(field) == field \notin DOMAIN resource
    IN SelectSeq(RequiredFields, absent)

\* f"Missing required field: {field}"
MissingMessage(field) == <<"Missing required field: ", field>>

\* errors after the structural validation
ValidationErrors(resource, resource_type) ==
    IF IsObservation(resource_type)
        THEN [i \in 1..Len(missing_fields(resource)) |->
                 MissingMessage(missing_fields(resource)[i])]
    ELSE <<>>

\* What validate_fhir_resource answers: 400 without a truthy resourceType,
\* 500 when the concatenation of the profile raises TypeError, else the
\* validation result.
ValidateResponse(resource, resource_type) ==
    IF ~Truthy(resource_type) THEN HTTPException(400, "Missing resourceType")
    ELSE IF resource_type.type # "str"
        THEN [status_code |-> 500, raised |-> "TypeError"]
    ELSE [status_code |-> 200,
          body |-> [valid    |-> Len(ValidationErrors(resource, resource_type)) = 0,
                    errors   |-> ValidationErrors(resource, resource_type),
                    warnings |-> <<>>,
                    profile  |-> <<"http://hl7.org/fhir/StructureDefinition/",
                                   resource_type.s>>]]

\* A field of a request body: not there, null, or a value.
FieldOptions == {"absent", "null", "value"}

\* The JSON object with the given resourceType and the three fields.
ResourceOf(rt, st, co, su) ==
    LET keys == (IF rt = "absent" THEN {} ELSE {"resourceType"})
                \cup (IF st = "absent" THEN {} ELSE {"status"})
                \cup (IF co = "absent" THEN {} ELSE {"code"})
                \cup (IF su = "absent" THEN {} ELSE {"subject"})
        field(opt) == IF opt = "null" THEN JsonNull ELSE JsonStr("x")
    IN [k \in keys |->
           CASE k = "resourceType" ->
                    (CASE rt = "null"  -> JsonNull
                       [] rt = "empty" -> JsonStr("")
                       [] rt = "zero"  -> JsonInt(0)
                       [] rt = "five"  -> JsonInt(5)
                       [] OTHER        -> JsonStr(rt))
             [] k = "status"  -> field(st)
             [] k = "code"    -> field(co)
             [] k = "subject" -> field(su)]

FhirResources ==
    {ResourceOf(rt, st, co, su) :
        rt \in {"absent", "null", "empty", "zero", "five", "Observation", "Patient"},
        st \in FieldOptions, co \in FieldOptions, su \in FieldOptions}

InitFhir ==
    /\ HasherInit(None)
    /\ now = 0
    /\ \E resource \in FhirResources : ret = [op |-> "input", args |-> resource]
    /\ tampered = "none"
    /\ CallerIdle
    /\ LaterIdle

\* POST /api/v1/fhir/validate
validate_fhir_resource ==
    /\ ret.op = "input"
    /\ ret' = [op |-> "validate_fhir_resource", args |-> ret.args,
               value |-> ValidateResponse(ret.args, ResourceTypeOf(ret.args))]
    /\ UNCHANGED <<hasherVars, now, tampered, callerVars, laterVars>>

NextFhir == validate_fhir_resource

SpecFhir == InitFhir /\ [][NextFhir]_vars

(***************************************************************************)
(* _calculate_concordance alone, on one pair of labels drawn at the start. *)
(***************************************************************************)
\* The stage names LEI-V classification hands to fuse.
LeivStageLabels ==
    {Label.healthy, Label.stage_0_early, Label.stage_i_minimal, Label.stage_ii_mild,
     Label.stage_iii_moderate, Label.stage_iv_severe}

\* The labels a platform may report.
PlatformLabels == {Label[k] : k \in DOMAIN Label}

InitSeverity ==
    /\ HasherInit(None)
    /\ now = 0
    /\ \E lei_v_stage \in LeivStageLabels, platform_stage \in PlatformLabels :
           ret = [op |-> "input",
                  args |-> [lei_v_stage |-> lei_v_stage,
                            result |-> [platform |-> "aidoc", stage |-> platform_stage]]]
    /\ tampered = "none"
    /\ CallerIdle
    /\ LaterIdle

\* BayesianFusionEngine._calculate_concordance, with the two severities it
\* computed on the way
calculate_concordance_call ==
    /\ ret.op = "input"
    /\ ret' = [op |-> "_calculate_concordance", args |-> ret.args,
               lei_v_severity |-> get_severity_level(ret.args.lei_v_stage),
               platform_severity |-> get_severity_level(PlatformStage(ret.args.result)),
               value |-> calculate_concordance(ret.args.result.platform, ret.args.result,
                                               ret.args.lei_v_stage)]
    /\ UNCHANGED <<hasherVars, now, tampered, callerVars, laterVars>>

NextSeverity == calculate_concordance_call

SpecSeverity == InitSeverity /\ [][NextSeverity]_vars

(***************************************************************************)
(* hardware/signal_processor.py: EVGSignalProcessor                        *)
(*                                                                         *)
(* Times are in half hours.  A float is an exact fraction.  The buffer is  *)
(* kept as its length and whether it holds a sample that has not six       *)
(* channels; the values scipy's filtfilt returns are any of FilterOutputs. *)
(***************************************************************************)
SAMPLE_RATE == 250
LH_SURGE == 25

\* A number of hours, in the unit of time
Hours(h) == h * 2

\* int(x / y) of Python for y > 0: the quotient truncated towards zero
TruncDiv(x, y) == IF x >= 0 THEN x \div y ELSE -((-x) \div y)

FrNeg(a) == [n |-> -a.n, d |-> a.d]
FrSub(a, b) == FrAdd(a, FrNeg(b))
FrAbs(a) == [n |-> Abs(a.n), d |-> a.d]

RECURSIVE FrSum(_, _)
FrSum(xs, k) == IF k = 0 THEN Fr(0, 1) ELSE FrAdd(FrSum(xs, k - 1), xs[k])

RECURSIVE SeqMin(_, _)
SeqMin(xs, k) ==
    IF k = 1 THEN xs[1]
    ELSE IF xs[k] < SeqMin(xs, k - 1) THEN xs[k] ELSE SeqMin(xs, k - 1)

RECURSIVE SeqMax(_, _)
SeqMax(xs, k) ==
    IF k = 1 THEN xs[1]
    ELSE IF xs[k] > SeqMax(xs, k - 1) THEN xs[k] ELSE SeqMax(xs, k - 1)

\* Normalize to 0-1 range
Normalized(values, min_val, max_val) ==
    IF max_val - min_val > 0
        THEN [i \in 1..Len(values) |-> Fr(values[i] - min_val, max_val - min_val)]
    ELSE [i \in 1..NUM_ELECTRODES |-> Fr(1, 2)]

\* base_radius + (normalized - 0.5) * deviation_scale
RadialOf(normalized) ==
    [i \in 1..Len(normalized) |->
        FrAdd(Fr(433, 1000), FrMul(FrSub(normalized[i], Fr(1, 2)), Fr(1, 10)))]

\* _compute_radial_distances
compute_radial_distances(values) ==
    RadialOf(Normalized(values, SeqMin(values, Len(values)), SeqMax(values, Len(values))))

\* np.sum((r - r_mean) ** 2)
SumSquares(r, r_mean) ==
    FrSum([i \in 1..Len(r) |-> FrMul(FrSub(r[i], r_mean), FrSub(r[i], r_mean))], Len(r))

\* _compute_lei_v
compute_lei_v(radial_distances) ==
    IF Len(radial_distances) # NUM_ELECTRODES THEN None
    ELSE Some(SumSquares(radial_distances,
                         FrMul(FrSum(radial_distances, Len(radial_distances)),
                               Fr(1, Len(radial_distances)))))

\* The trend of _compute_drift
TrendOf(drift_value, drift_percent) ==
    IF FrLess(FrAbs(drift_percent), Fr(5, 1)) THEN "stable"
    ELSE IF drift_value.n > 0 THEN "increasing"
    ELSE "decreasing"

\* The LEIVDrift built from the two numbers _compute_drift works out
DriftOf(current_lei_v, baseline, drift_value, drift_percent) ==
    [current_lei_v  |-> current_lei_v,
     baseline_lei_v |-> baseline,
     drift_value    |-> drift_value,
     drift_percent  |-> drift_percent,
     trend          |-> TrendOf(drift_value, drift_percent),
     timestamp      |-> now]

\* _compute_drift, against the baseline given
compute_drift(current_lei_v, baseline) ==
    DriftOf(current_lei_v, baseline, FrSub(current_lei_v, baseline),
            IF baseline.n # 0
                THEN FrMul(FrDiv(FrSub(current_lei_v, baseline), baseline), Fr(100, 1))
            ELSE Fr(0, 1))

\* Mutant of LatchBaseline: the baseline follows every valid value.
BaselineFollows(baseline, lei_v) == IF lei_v # None THEN lei_v ELSE baseline

\* Set baseline if first valid measurement
LatchBaseline(baseline, lei_v) ==
    IF baseline = None /\ lei_v # None THEN lei_v ELSE baseline

\* int(elapsed.total_seconds() / 3600)
HourOf(timestamp, window_start) == TruncDiv(timestamp - window_start, Hours(1))

\* Update V-CAW hour
StatusAt(status, timestamp) ==
    IF status = None THEN None
    ELSE Some([status[1] EXCEPT !.current_hour = HourOf(timestamp, status[1].window_start)])

\* self._samples_buffer.append(sample)
BufferWith(buffer, sample) ==
    [len   |-> buffer.len + 1,
     short |-> buffer.short \/ Len(sample.channels) # NUM_ELECTRODES]

\* The dictionary process_sample returns, from the LEI-V on
ProcessedOf(lei_v, baseline, status) ==
    [lei_v     |-> lei_v,
     drift     |-> IF baseline # None /\ lei_v # None
                       THEN Some(compute_drift(lei_v[1], baseline[1]))
                   ELSE None,
     vcaw_hour |-> IF status # None THEN Some(status[1].current_hour) ELSE None]

MaxBuffer == 250    \* samples processed between two window starts

\* process_sample whose values, raw or filtered, are the ones given
process_values(sample, filtered) ==
    \E lei_v \in {compute_lei_v(compute_radial_distances(filtered))} :
        /\ baseline_lei_v' = LatchBaseline(baseline_lei_v, lei_v)
        /\ ret' = [op |-> "process_sample", args |-> sample, raised |-> FALSE,
                   value |-> ProcessedOf(lei_v, baseline_lei_v', vcaw_status')]

spFrame == <<secret_key, chain, last_hash, now, tampered, callerVars, rateVars, httpVars,
             hwVars>>

\* The values filtfilt may hand back for the last row of a window
FilterOutputs == {<<1, 1, 1, 1, 1, 1>>, <<0, 2, 0, 2, 0, 2>>}

\* EVGSignalProcessor.process_sample
process_sample(sample) ==
    /\ samples_buffer.len < MaxBuffer
    /\ samples_buffer' = BufferWith(samples_buffer, sample)
    /\ vcaw_status' = StatusAt(vcaw_status, sample.timestamp)
    /\ IF samples_buffer'.len < SAMPLE_RATE
           THEN process_values(sample, sample.channels)
       ELSE IF samples_buffer'.short
           \* a window whose rows differ in length has no column i
           THEN /\ baseline_lei_v' = baseline_lei_v
                /\ ret' = [op |-> "process_sample", args |-> sample, raised |-> TRUE,
                           value |-> None]
       ELSE \E filtered \in FilterOutputs : process_values(sample, filtered)
    /\ UNCHANGED spFrame

\* EVGSignalProcessor.start_vcaw_window
start_vcaw_window(expected_ovulation) ==
    /\ vcaw_status' =
           Some([window_start        |-> IF expected_ovulation # None
                                             THEN expected_ovulation[1] - Hours(48)
                                         ELSE now,
                 current_hour        |-> 0,
                 total_hours         |-> 96,
                 ovulation_detected  |-> FALSE,
                 ovulation_hour      |-> None,
                 lh_surge_detected   |-> FALSE,
                 temperature_shift   |-> FALSE])
    /\ samples_buffer' = [len |-> 0, short |-> FALSE]
    /\ baseline_lei_v' = None
    /\ ret' = [op |-> "start_vcaw_window", args |-> expected_ovulation, raised |-> FALSE,
               value |-> vcaw_status']
    /\ UNCHANGED spFrame

\* lh_value and lh_value > 25
LhSurge(lh_value) == lh_value # None /\ lh_value[1] # 0 /\ lh_value[1] > LH_SURGE

\* The status after the LH surge detection
AfterLh(status, lh_value) ==
    [status EXCEPT !.lh_surge_detected = status.lh_surge_detected \/ LhSurge(lh_value)]

\* Mutant of Confirmed: the hour is not recorded.
ConfirmedWithoutHour(status) == [status EXCEPT !.ovulation_detected = TRUE]

\* Ovulation confirmed
Confirmed(status) ==
    [status EXCEPT !.ovulation_detected = TRUE,
                   !.ovulation_hour = Some(status.current_hour)]

\* EVGSignalProcessor.detect_ovulation
detect_ovulation(lh_value, basal_temp) ==
    /\ IF vcaw_status = None
           THEN /\ vcaw_status' = vcaw_status
                /\ ret' = [op |-> "detect_ovulation",
                           args |-> [lh_value |-> lh_value, basal_temp |-> basal_temp],
                           raised |-> FALSE, value |-> FALSE]
       ELSE IF AfterLh(vcaw_status[1], lh_value).lh_surge_detected
           THEN /\ vcaw_status' = Some(Confirmed(AfterLh(vcaw_status[1], lh_value)))
                /\ ret' = [op |-> "detect_ovulation",
                           args |-> [lh_value |-> lh_value, basal_temp |-> basal_temp],
                           raised |-> FALSE, value |-> TRUE]
       ELSE /\ vcaw_status' = Some(AfterLh(vcaw_status[1], lh_value))
            /\ ret' = [op |-> "detect_ovulation",
                       args |-> [lh_value |-> lh_value, basal_temp |-> basal_temp],
                       raised |-> FALSE, value |-> FALSE]
    /\ UNCHANGED <<samples_buffer, baseline_lei_v, spFrame>>

\* The samples handed to process_sample: six channels alike, six channels
\* apart in two ways, and five channels apart; taken at 0 h and at 1.5 h.
SpSamples ==
    {[channels |-> channels, timestamp |-> timestamp] :
        channels \in {<<1, 1, 1, 1, 1, 1>>, <<0, 2, 0, 2, 0, 2>>, <<0, 0, 0, 0, 0, 2>>,
                      <<0, 2, 2, 2, 2>>},
        timestamp \in {0, 3}}

\* expected_ovulation: none, or 48 h after the clock's 0
ExpectedOvulations == {None, Some(96)}

\* The arguments of detect_ovulation: LH readings in mIU/mL, basal
\* temperatures in tenths of a degree
DetectArgs == {<<None, None>>, <<None, Some(368)>>, <<Some(25), None>>, <<Some(30), None>>}

InitSp ==
    /\ HasherInit(None)
    /\ now = 0
    /\ ret = [op |-> "init", value |-> None]
    /\ tampered = "none"
    /\ CallerIdle
    /\ LaterIdle

NextSp ==
    \/ \E expected_ovulation \in ExpectedOvulations : start_vcaw_window(expected_ovulation)
    \/ \E sample \in SpSamples : process_sample(sample)
    \/ \E args \in DetectArgs : detect_ovulation(args[1], args[2])

SpecSp == InitSp /\ [][NextSp]_vars

(***************************************************************************)
(* SpecTamperHash lets the entry_hash of one stored entry be overwritten   *)
(* once; tampered tells whether the entry was the last of the chain then.  *)
(***************************************************************************)
TamperEntryHash ==
    /\ tampered = "none"
    /\ \E i \in 1..Len(chain) : \E v \in HashValues :
         /\ v # chain[i].entry_hash
         /\ chain' = [chain EXCEPT ![i].entry_hash = v]
         /\ tampered' = IF i = Len(chain) THEN "last_entry_hash" ELSE "inner_entry_hash"
    /\ ret' = [op |-> "tamper", value |-> None]
    /\ UNCHANGED <<secret_key, last_hash, now, callerVars, laterVars>>

NextTamperHash ==
    \/ \E data \in AuditData : hash_computation(data)
    \/ verify_chain_integrity
    \/ TamperEntryHash

SpecTamperHash == InitAudit /\ [][NextTamperHash]_vars

(***************************************************************************)
(* Properties of the audit chain.                                          *)
(***************************************************************************)
Linked(c) ==
    \A i \in 1..Len(c) :
        c[i].previous_hash = (IF i = 1 THEN GENESIS_HASH ELSE c[i - 1].entry_hash)

\* C1: after any sequence of hash_computation calls the first entry's
\* previous_hash is the genesis value, every later entry's previous_hash is
\* the entry_hash of the entry before it, and verify_chain_integrity returns
\* true (also on the empty chain).
C1_ChainLinked ==
    /\ Linked(chain)
    /\ GENESIS_HASH.hexlen = 64
    /\ VerifyChain(chain) = TRUE
    /\ ret.op = "verify_chain_integrity" => ret.value = TRUE

C1_Witness ==
    /\ Len(chain) = MaxChain
    /\ ret.op = "verify_chain_integrity"
    /\ ret.value = TRUE

\* C2: once the previous_hash of any one entry of a chain built by
\* hash_computation has been changed to a different value,
\* verify_chain_integrity returns false, as a boolean.
C2_TamperDetected ==
    /\ tampered = "previous_hash" => VerifyChain(chain) = FALSE
    /\ ret.op = "verify_chain_integrity" =>
          /\ ret.value \in BOOLEAN
          /\ tampered = "previous_hash" => ret.value = FALSE

C2_Witness ==
    /\ tampered = "previous_hash"
    /\ Len(chain) >= 2
    /\ chain[1].previous_hash = GENESIS_HASH
    /\ ret.op = "verify_chain_integrity"
    /\ ret.value = FALSE

\* C3: every hash_computation call lengthens the chain by exactly one entry
\* at the end and leaves the earlier entries as they were;
\* verify_chain_integrity, get_chain and export_for_ipfs change neither the
\* chain nor the last-hash pointer.
C3_AppendOnly ==
    [][ /\ ret'.op = "hash_computation" =>
             /\ Len(chain') = Len(chain) + 1
             /\ SubSeq(chain', 1, Len(chain)) = chain
        /\ ret'.op \in {"verify_chain_integrity", "get_chain", "export_for_ipfs"} =>
             /\ chain' = chain
             /\ last_hash' = last_hash ]_vars

C3_Witness ==
    /\ Len(chain) = MaxChain
    /\ ret.op = "export_for_ipfs"
    /\ ret.value[2].chain_length = MaxChain

(***************************************************************************)
(* Properties of the LEI-V calculator.                                     *)
(***************************************************************************)
\* C4: a compute call with a number of radii other than 6 raises ValueError
\* and leaves the audit chain and the last-hash pointer as they were.
C4_WrongCountRejected ==
    [][ (ret'.op = "compute" /\ Len(ret'.args.radial_distances.ks) # 6) =>
            /\ ret'.raised = Some("ValueError")
            /\ ret'.value = None
            /\ chain' = chain
            /\ last_hash' = last_hash ]_vars

C4_Witness ==
    /\ ret.op = "compute"
    /\ Len(ret.args.radial_distances.ks) = 5
    /\ ret.raised = Some("ValueError")
    /\ Len(chain) >= 1

\* C5: every successful compute call appends exactly one entry to the audit
\* chain, and the audit_hash of the returned LEIVResult is the entry_hash of
\* that new entry, a digest of 64 hex characters.
C5_ComputeLogged ==
    [][ (ret'.op = "compute" /\ ret'.raised = None) =>
            /\ Len(chain') = Len(chain) + 1
            /\ SubSeq(chain', 1, Len(chain)) = chain
            /\ ret'.value[1].audit_hash = chain'[Len(chain')].entry_hash
            /\ ret'.value[1].audit_hash.hexlen = 64 ]_vars

C5_Witness ==
    /\ ret.op = "compute"
    /\ ret.raised = None
    /\ Len(chain) = MaxComputes
    /\ ret.value[1].audit_hash = chain[Len(chain)].entry_hash

AllEqual(ks) == \A i, j \in 1..Len(ks) : ks[i] = ks[j]

\* C7: for every list of 6 radii the LEI-V value compute returns is exactly
\* 0 when all six radii are equal, strictly positive when at least two
\* differ, and never negative.
C7_ZeroIffEqual ==
    (ret.op = "compute" /\ ret.raised = None) =>
        LET ks == ret.args.radial_distances.ks
            v  == ret.value[1].lei_v_value IN
        /\ AllEqual(ks) => v.n = 0
        /\ ~AllEqual(ks) => v.n > 0
        /\ v.n >= 0

\* The same statement for the radii whose LEI-V a double can hold.
C7_ZeroIffEqualInRange ==
    (ret.op = "compute" /\ ret.raised = None /\ ret.args.radial_distances.e = 3) =>
        C7_ZeroIffEqual

(***************************************************************************)
(* Properties of the universal caller.                                     *)
(***************************************************************************)
\* The upstream answered HTTP 200 with a body that normalizes.
UpstreamOk(t) == t.upstream = <<"http_200", "body_dict">>

Returned == ret.op = "call_all_platforms" /\ ret.value # None

\* The error string the upstream's doing leads to.
ErrorFor(t) ==
    IF t.upstream = <<"http_other">> THEN Some("HTTP 500")
    ELSE IF t.upstream[Len(t.upstream)] \in {"timeout", "body_timeout"} THEN Some("Timeout")
    ELSE IF t.upstream[Len(t.upstream)] = "body_not_dict" THEN Some(NotADict.message)
    ELSE Some(t.exc[1].message)

\* C8: call_all_platforms returns one PlatformResponse per requested
\* platform, in the order requested, whatever the order the calls went on
\* and finished in; a platform that timed out, answered a non-200 status or
\* raised has an error record at its own position, the batch does not
\* raise, and each position holds the record its own call's upstream
\* outcome leads to.
C8_OnePerPlatformInOrder ==
    /\ ret.op = "call_all_platforms" => ret.raised = None
    /\ \A i \in 1..Len(tasks) : tasks[i].pc # "raised"
    /\ Returned =>
         LET rs == ret.value[1] IN
           /\ Len(rs) = Len(platforms)
           /\ \A i \in 1..Len(platforms) :
                /\ rs[i].platform = platforms[i]
                /\ rs[i] = tasks[i].response[1]
                /\ rs[i].success = UpstreamOk(tasks[i])
                /\ ~UpstreamOk(tasks[i]) => rs[i].error = ErrorFor(tasks[i])

\* Two platforms, the second finished first and succeeded, the first failed.
C8_Witness ==
    /\ Returned
    /\ Len(platforms) = 2
    /\ platforms[1] # platforms[2]
    /\ finished = <<2, 1>>
    /\ ret.value[1][1].success = FALSE
    /\ ret.value[1][2].success = TRUE

\* C9: call_platform never raises; its record has success=True and
\* error=None exactly when the upstream answered 200 with a body that
\* normalizes, and otherwise success=False, confidence 0, an empty result,
\* no raw_response and a non-empty error string.
C9_ErrorRecord ==
    \A i \in 1..Len(tasks) :
        /\ tasks[i].pc # "raised"
        /\ tasks[i].response # None =>
             LET r == tasks[i].response[1] IN
               /\ r.success = UpstreamOk(tasks[i])
               /\ r.success => r.error = None
               /\ ~r.success =>
                    /\ r.confidence = 0
                    /\ DOMAIN r.result = {}
                    /\ r.raw_response = None
                    /\ r.error # None
                    /\ r.error[1] # ""

\* The same without the last conjunct: every failure record has some error
\* string, possibly the empty one.
C9_ErrorRecordAnyMessage ==
    \A i \in 1..Len(tasks) :
        /\ tasks[i].pc # "raised"
        /\ tasks[i].response # None =>
             LET r == tasks[i].response[1] IN
               /\ r.success = UpstreamOk(tasks[i])
               /\ r.success => r.error = None
               /\ ~r.success =>
                    /\ r.confidence = 0
                    /\ DOMAIN r.result = {}
                    /\ r.raw_response = None
                    /\ r.error # None

\* C10: the calls of one fan-out share the caller's hasher without a lock,
\* and in every interleaving each call that has built its record, success
\* or failure, has added exactly one entry, no two entries have the same
\* previous_hash, and once all calls have finished the chain has one entry
\* per call and verify_chain_integrity returns true.
C10_ChainIntact ==
    LET hashed == {i \in 1..Len(tasks) : tasks[i].response # None} IN
      /\ Len(chain) = Cardinality(hashed)
      /\ \A i \in hashed :
           Cardinality({k \in 1..Len(chain) :
               chain[k].entry_hash = tasks[i].response[1].audit_hash}) = 1
      /\ \A j, k \in 1..Len(chain) :
           j # k => chain[j].previous_hash # chain[k].previous_hash
      /\ (\A i \in 1..Len(tasks) : tasks[i].pc = "done") =>
           /\ Len(chain) = Len(platforms)
           /\ VerifyChain(chain) = TRUE

\* Two calls overlapped: the second hashed first (a success) but the first,
\* which hashed after it (a failure), returned before it.
C10_Witness ==
    /\ Len(tasks) = 2
    /\ \A i \in 1..2 : tasks[i].pc = "done"
    /\ finished = <<1, 2>>
    /\ chain[1].entry_hash = tasks[2].response[1].audit_hash
    /\ chain[2].entry_hash = tasks[1].response[1].audit_hash
    /\ tasks[2].response[1].success = TRUE
    /\ tasks[1].response[1].success = FALSE

(***************************************************************************)
(* Properties of the rate limiter.                                         *)
(***************************************************************************)
\* C11: with limit L, for every client address and every minute at most L
\* requests of that client are forwarded; a request of a client that has
\* had L requests forwarded in its minute receives 429 with
\* retry_after_seconds 60, is not forwarded and leaves every counter as it
\* was; a client that has had fewer than L forwarded is forwarded whatever
\* the other clients have done.
C11_AtMostLimitForwarded ==
    [][ret'.op = "rate_dispatch" =>
         LET who == <<ret'.args.client, ret'.args.minute>>
             before == DictGet0(forwarded, who)
         IN /\ \A k \in DOMAIN forwarded' : forwarded'[k] <= requests_per_minute
            /\ before >= requests_per_minute =>
                 /\ ret'.forwarded = FALSE
                 /\ ret'.response.status_code = 429
                 /\ ret'.response.content.retry_after_seconds = 60
                 /\ forwarded' = forwarded
                 /\ request_counts' = request_counts
            /\ before < requests_per_minute =>
                 /\ ret'.forwarded = TRUE
                 /\ forwarded' = DictSet(forwarded, who, before + 1)
       ]_vars

\* One client is refused in a minute in which it has had its two requests
\* forwarded, while another client has had one forwarded in that minute.
C11_Witness ==
    /\ ret.op = "rate_dispatch"
    /\ ret.forwarded = FALSE
    /\ requests_per_minute = MaxLimit
    /\ DictGet0(forwarded, <<ret.args.client, ret.args.minute>>) = MaxLimit
    /\ \E c \in RateClients :
         /\ c # ret.args.client
         /\ DictGet0(forwarded, <<c, ret.args.minute>>) = 1

\* C12: after every request the rate limiter admits, the counter table has
\* only keys of that request's minute, and every stored counter is between
\* 1 and the limit.
C12_OnlyCurrentMinute ==
    (ret.op = "rate_dispatch" /\ ret.forwarded) =>
        \A k \in DOMAIN request_counts :
            /\ \E c \in RateClients :
                 k = RateKey(client_ip(c), strftime_minute(ret.args.minute))
            /\ request_counts[k] >= 1
            /\ request_counts[k] <= requests_per_minute

\* A request is admitted in minute 1 after two clients were counted in
\* minute 0: only its own key is left.
C12_Witness ==
    /\ ret.op = "rate_dispatch"
    /\ ret.forwarded
    /\ ret.args.minute = 1
    /\ Cardinality({k \in DOMAIN forwarded : k[2] = 0}) = 2
    /\ Cardinality(DOMAIN request_counts) = 1

C14_TempFileDeleted ==
    (ret.op = "process_evg_file" /\ ret.tmp_path # None) =>
        ret.tmp_path[1] \notin tmp_files

\* What does hold: the file is gone after a request that was processed.
C14_TempFileDeletedWhenProcessed ==
    (ret.op = "process_evg_file" /\ ret.outcome = "processed") =>
        ret.tmp_path[1] \notin tmp_files

(***************************************************************************)
(* Properties of the assessment and patient endpoints.                     *)
(***************************************************************************)
\* C15: POST /assessments with a number of electrode readings other than 6
\* is answered 422 before the handler body runs: no LEI-V calculator is
\* called, no audit entry is written and no background fusion task is
\* scheduled (and no id is handed out).
C15_WrongCountIs422 ==
    [][(ret'.op = "create_assessment"
            /\ Len(ret'.args.evg_readings) # NUM_ELECTRODES) =>
         /\ ret'.status_code = 422
         /\ ret'.calculator_calls = 0
         /\ ret'.value = None
         /\ ret'.background_tasks = <<>>
         /\ chain' = chain
         /\ last_hash' = last_hash
         /\ issued_ids' = issued_ids
      ]_vars

\* A request with 5 readings that asked for AI fusion was refused, after an
\* earlier request had its audit entry written.
C15_Witness ==
    /\ ret.op = "create_assessment"
    /\ Len(ret.args.evg_readings) = 5
    /\ ret.args.request_ai_fusion
    /\ ret.status_code = 422
    /\ Len(chain) = 1

ConnectCommands ==
    CMD_SOFT_RESET \o SubSeq(CMD_CHANNEL_ON, 1, RSL_CHANNELS)
        \o SubSeq(CMD_CHANNEL_OFF, RSL_CHANNELS + 1, CYTON_CHANNELS)

\* C17: a connect() call on a serial port that opens writes the soft-reset
\* command 'v', then the six enable commands of channels 1 to 6, then the
\* two disable commands of channels 7 and 8, and returns True.
C17_ConnectConfigures ==
    (ret.op = "connect" /\ ret.args = "opens") =>
        /\ ret.wrote = ConnectCommands
        /\ ret.value = <<"True">>


\* C18: while streaming, the driver emits exactly one 6-channel sample for
\* each 33-byte packet whose first byte is 0xA0 and none for any other
\* packet, which leaves the counter unchanged; the sample numbers of the
\* emitted samples start at 1 and go up by exactly 1.
C18_OneSamplePerValidPacket ==
    /\ [](\A i \in 1..Len(emitted) : emitted[i].sample_number = i)
    /\ [][ret'.op = "read_returns" =>
            IF Len(ret'.args) = PACKET_LEN /\ ret'.args[1] = SYNC_BYTE
                THEN /\ ret'.value # None
                     /\ emitted' = Append(emitted, ret'.value[1])
                     /\ Len(ret'.value[1].channels) = RSL_CHANNELS
                     /\ ret'.value[1].sample_number = sample_count + 1
                     /\ sample_count' = sample_count + 1
            ELSE /\ ret'.value = None
                 /\ emitted' = emitted
                 /\ sample_count' = sample_count
         ]_vars

\* Two samples were emitted and the packet read last, one with a wrong
\* header byte, was rejected.
C18_Witness ==
    /\ Len(emitted) = 2
    /\ ret.op = "read_returns"
    /\ Len(ret.args) = PACKET_LEN
    /\ ret.args[1] # SYNC_BYTE
    /\ sample_count = 2

\* The 24-bit big-endian two's-complement value of three bytes.
SignedInt24(b) ==
    (IF b[1] >= 128 THEN b[1] - 256 ELSE b[1]) * 65536 + b[2] * 256 + b[3]

\* C19: for every channel of a valid packet the raw value decoded from its
\* 3 bytes is the 24-bit big-endian two's-complement signed integer: it
\* lies in [-2^23, 2^23 - 1] and is negative whenever the most significant
\* bit of the first byte is set.
C19_SignedDecode ==
    (ret.op = "_parse_packet" /\ ret.value # None) =>
        \A k \in 1..RSL_CHANNELS :
            LET raw == ret.value[1].channels[k].value_uv.counts
                b == SubSeq(ret.args, 3 * k, 3 * k + 2)
            IN /\ raw = SignedInt24(b)
               /\ raw >= -8388608
               /\ raw <= 8388607
               /\ (b[1] >= 128 => raw < 0)

\* What does hold: the decoded value is the unsigned 24-bit number.
C19_UnsignedDecode ==
    (ret.op = "_parse_packet" /\ ret.value # None) =>
        \A k \in 1..RSL_CHANNELS :
            LET raw == ret.value[1].channels[k].value_uv.counts
                b == SubSeq(ret.args, 3 * k, 3 * k + 2)
            IN raw = b[1] * 65536 + b[2] * 256 + b[3]

(***************************************************************************)
(* Properties of the Bayesian fusion engine.                               *)
(***************************************************************************)
\* The concordances of the contributions of a fuse call.
ConcordancesAbove(contributions, bound) ==
    \A i \in 1..Len(contributions) : FrLess(bound, contributions[i].concordance_with_leiv)

\* Stage labels of the same severity as the LEI-V stage.
ConcordantLabels(result, lei_v_stage) ==
    /\ PlatformStage(result) # <<>>
    /\ get_severity_level(PlatformStage(result)) = get_severity_level(lei_v_stage)

\* C20: fuse returns a posterior that never exceeds 0.99 for platform
\* confidences in [0, 100]; for LEI-V stage stage_0_early with confidence 90
\* and three platform results with concordant stage labels and confidences
\* of at least 80 the evidence strength is 'strong'; in general it is
\* 'strong' exactly when there are at least 3 results all with concordance
\* above 0.7, else 'moderate' exactly when there are at least 2 results and
\* posterior > 0.75, else 'weak'.
C20_PosteriorAndStrength ==
    ret.op = "fuse" =>
        LET r == ret.value
            a == ret.args
            cs == r.platform_contributions
            strong == Len(cs) >= 3 /\ ConcordancesAbove(cs, Fr(7, 10))
            moderate == ~strong /\ Len(cs) >= 2
                            /\ FrLess(Fr(75, 100), r.posterior_probability)
        IN /\ ~FrLess(Fr(99, 100), r.posterior_probability)
           /\ Len(cs) = Len(a.platform_results)
           /\ (r.evidence_strength = "strong") = strong
           /\ (r.evidence_strength = "moderate") = moderate
           /\ (r.evidence_strength = "weak") = (~strong /\ ~moderate)
           /\ (/\ a.lei_v_stage = Label.stage_0_early
               /\ a.lei_v_confidence = 90
               /\ Len(a.platform_results) = 3
               /\ \A i \in 1..3 :
                      /\ ConcordantLabels(a.platform_results[i], a.lei_v_stage)
                      /\ a.platform_results[i].confidence >= 80)
                  => r.evidence_strength = "strong"

\* Stage stage_0_early with confidence 90 and three concordant platform
\* results of confidence 80 or more, not all alike, gave 'strong' with a
\* posterior below the cap.
C20_Witness ==
    /\ ret.op = "fuse"
    /\ ret.args.lei_v_stage = Label.stage_0_early
    /\ ret.args.lei_v_confidence = 90
    /\ Len(ret.args.platform_results) = 3
    /\ \A i \in 1..3 :
           /\ ConcordantLabels(ret.args.platform_results[i], ret.args.lei_v_stage)
           /\ ret.args.platform_results[i].confidence >= 80
    /\ ret.args.platform_results[1] # ret.args.platform_results[2]
    /\ ret.value.evidence_strength = "strong"
    /\ FrLess(ret.value.posterior_probability, Fr(99, 100))

\* Three results, one of them with concordance 0.7 exactly, and a
\* posterior above 0.75: 'moderate'.
C20_WitnessModerate ==
    /\ ret.op = "fuse"
    /\ Len(ret.args.platform_results) = 3
    /\ \E i \in 1..3 :
           ret.value.platform_contributions[i].concordance_with_leiv = Fr(7, 10)
    /\ ret.value.evidence_strength = "moderate"

\* Two results or more and a posterior of 0.75 or less: 'weak'.
C20_WitnessWeak ==
    /\ ret.op = "fuse"
    /\ Len(ret.args.platform_results) >= 2
    /\ ret.value.posterior_probability.n > 0
    /\ ret.value.evidence_strength = "weak"

\* The cap binds: four results of confidence 100 on a stage_i_minimal
\* anchor give 0.99.
C20_WitnessCapped ==
    /\ ret.op = "fuse"
    /\ ret.value.posterior_probability = Fr(99, 100)
\* The number of the three required fields a resource lacks.
MissingCount(resource) ==
    Cardinality({"status", "code", "subject"} \ DOMAIN resource)

C21_WitnessValid ==
    /\ ret.op = "validate_fhir_resource"
    /\ IsObservation(ResourceTypeOf(ret.args))
    /\ MissingCount(ret.args) = 0
    /\ ret.value.body.valid
\* The label, lowered, contains stage_iii, stage_iv or severe.
NamesSevere(label) ==
    \/ Contains(Lower(label), Label.stage_iii)
    \/ Contains(Lower(label), Label.stage_iv)
    \/ Contains(Lower(label), Label.severe)

\* C22: the severity mapping assigns level 4 to every label containing
\* stage_iii, stage_iv or severe; in particular stage_iv_severe maps to
\* level 4, so a platform reporting 'severe' against LEI-V stage
\* stage_iv_severe gets concordance 1.0.
C22_SevereIsLevel4 ==
    ret.op = "_calculate_concordance" =>
        /\ NamesSevere(ret.args.lei_v_stage) => ret.lei_v_severity = 4
        /\ NamesSevere(ret.args.result.stage) => ret.platform_severity = 4
        /\ (/\ ret.args.lei_v_stage = Label.stage_iv_severe
            /\ ret.args.result.stage = Label.severe) => ret.value = Fr(1, 1)

\* What the code does with the labels that carry one keyword only: these
\* get the levels the mapping names, and an unrecognized label gets 2.
C22_PlainLabels ==
    ret.op = "_calculate_concordance" =>
        /\ ret.args.result.stage \in {Label.healthy, Label.normal} => ret.platform_severity = 0
        /\ ret.args.result.stage \in {Label.stage_0, Label.early, Label.Early, Label.minimal}
               => ret.platform_severity = 1
        /\ ret.args.result.stage \in {Label.stage_i, Label.mild} => ret.platform_severity = 2
        /\ ret.args.result.stage = Label.moderate => ret.platform_severity = 3
        /\ ret.args.result.stage = Label.severe => ret.platform_severity = 4
        /\ ret.args.result.stage = Label.unclassified => ret.platform_severity = 2

\* What the code does with the labels that begin with stage_i: stage_ii,
\* stage_iii, stage_iv and every full stage name but stage_i_minimal stop at
\* the stage_i test and get level 2; stage_i_minimal stops at minimal.
C22_StageIShadows ==
    ret.op = "_calculate_concordance" =>
        /\ ret.args.result.stage \in {Label.stage_ii, Label.stage_iii, Label.stage_iv,
                                      Label.stage_ii_mild, Label.stage_iii_moderate,
                                      Label.stage_iv_severe} => ret.platform_severity = 2
        /\ ret.args.result.stage = Label.stage_i_minimal => ret.platform_severity = 1
\* C23: within one V-CAW session the baseline LEI-V is set by the first
\* processed sample that yields an LEI-V value and is never changed by any
\* later process_sample call; every drift reported afterwards is measured
\* against that same baseline, and only start_vcaw_window clears it
\* (together with the sample buffer).
C23_BaselineLatched ==
    [][/\ samples_buffer'.len = samples_buffer.len + 1 =>
              /\ ret'.op = "process_sample"
              /\ baseline_lei_v # None => baseline_lei_v' = baseline_lei_v
              /\ (baseline_lei_v = None /\ ret'.raised) => baseline_lei_v' = None
              /\ (baseline_lei_v = None /\ ~ret'.raised) =>
                     baseline_lei_v' = ret'.value.lei_v
              /\ (~ret'.raised /\ ret'.value.lei_v # None) =>
                     /\ ret'.value.drift # None
                     /\ ret'.value.drift[1].baseline_lei_v = baseline_lei_v'[1]
                     /\ ret'.value.drift[1].drift_value =
                            FrSub(ret'.value.lei_v[1], baseline_lei_v'[1])
       /\ (baseline_lei_v # None /\ baseline_lei_v' # baseline_lei_v) =>
              /\ ret'.op = "start_vcaw_window"
              /\ baseline_lei_v' = None
              /\ samples_buffer'.len = 0
      ]_vars

\* In a session, a sample that yielded no LEI-V came first, then the
\* baseline was latched, and a later sample reported a drift away from it.
C23_Witness ==
    /\ vcaw_status # None
    /\ samples_buffer.len >= 3
    /\ samples_buffer.short
    /\ ret.op = "process_sample"
    /\ ~ret.raised
    /\ ret.value.drift # None
    /\ ret.value.drift[1].drift_value.n # 0
    /\ ret.value.drift[1].baseline_lei_v = baseline_lei_v[1]

\* The same on filtered values, a full window after the start of the session.
C23_WitnessFiltered ==
    /\ vcaw_status # None
    /\ samples_buffer.len = SAMPLE_RATE
    /\ ret.op = "process_sample"
    /\ ~ret.raised
    /\ ret.value.drift # None
    /\ ret.value.drift[1].drift_value.n # 0
C24_WitnessBasalOnly ==
    /\ ret.op = "detect_ovulation"
    /\ ret.args.lh_value = None
    /\ ret.args.basal_temp # None
    /\ ret.value = FALSE
    /\ vcaw_status # None
    /\ ~vcaw_status[1].lh_surge_detected
    /\ ~vcaw_status[1].ovulation_detected
    /\ ~vcaw_status[1].temperature_shift
    /\ vcaw_status[1].ovulation_hour = None

\* detect_ovulation was called with an LH reading and no window: False.
C24_WitnessNoWindow ==
    /\ ret.op = "detect_ovulation"
    /\ ret.args.lh_value = Some(30)
    /\ ret.value = FALSE
    /\ vcaw_status = None
\* C25: across successive POST /assessments requests handled by one server
\* process the audit entries form a single chain: the entry written for the
\* (k+1)-th assessment has previous_hash equal to the audit_hash returned
\* for the k-th assessment (last_hash before the request: the hash of the
\* latest entry written, the genesis value before the first).
C25_AssessmentsChained ==
    [][(ret'.op = "create_assessment" /\ ret'.status_code = 200) =>
           /\ chain'[Len(chain')].entry_hash = ret'.value[1].audit_hash
           /\ chain'[Len(chain')].previous_hash = last_hash
      ]_vars

\* What the code does: every assessment is the only entry of the chain of
\* its own calculator and links to the genesis value.
C25_EachLinksGenesis ==
    [][(ret'.op = "create_assessment" /\ ret'.status_code = 200) =>
           /\ Len(chain') = 1
           /\ chain'[1].entry_hash = ret'.value[1].audit_hash
           /\ chain'[1].previous_hash = GENESIS_HASH
      ]_vars
\* C26: for a chain of N >= 1 entries built by hash_computation, replacing
\* the entry_hash of any one stored entry (including the last one) with a
\* different value makes verify_chain_integrity return false.
C26_EntryHashTamperDetected ==
    /\ tampered # "none" => VerifyChain(chain) = FALSE
    /\ (ret.op = "verify_chain_integrity" /\ tampered # "none") => ret.value = FALSE

\* What the code does: a changed entry_hash is found through the
\* previous_hash of the entry after it, so it is found for every entry that
\* has a successor and goes unseen for as long as the entry is the last.
C26_DetectedThroughSuccessor ==
    /\ tampered = "inner_entry_hash" => VerifyChain(chain) = FALSE
    /\ (tampered = "last_entry_hash" /\ chain[Len(chain)].entry_hash # last_hash) =>
           VerifyChain(chain) = TRUE
    /\ (tampered = "last_entry_hash" /\ chain[Len(chain)].entry_hash = last_hash) =>
           VerifyChain(chain) = FALSE
    /\ ret.op = "verify_chain_integrity" => ret.value = VerifyChain(chain)
\* C27: whenever connect() returns False the driver holds no serial link
\* afterwards: a following start_streaming() raises RuntimeError, writes no
\* command and leaves the streaming flag false, exactly as on a driver that
\* was never connected.
C27_FailedConnectLeavesNoLink ==
    /\ []((ret.op = "connect" /\ ret.value = <<"False">>) => serial = None)
    /\ [][(/\ ret.op = "connect"
           /\ ret.value = <<"False">>
           /\ ret'.op = "start_streaming") =>
              /\ ret'.raised = Some("RuntimeError")
              /\ written' = written
              /\ ~streaming'
         ]_vars

\* What the code does: when the port does not open, connect() returns False
\* and leaves the link as it was; when it opens, the link is stored before
\* the commands are sent and stays stored whatever connect() returns.
C27_LinkKeptOnceOpened ==
    [][ret'.op = "connect" =>
           /\ ret'.args = "open_raises" => (serial' = serial /\ ret'.value = <<"False">>)
           /\ ret'.args = "opens" => serial' # None
      ]_vars
\* C28: once stop_streaming() (or disconnect()) has completed, so that the
\* streaming flag is false and no control call is under way, read_samples
\* emits no further sample and the sample counter does not advance any
\* more, for every interleaving of the stop call with a packet read that is
\* already in flight.
C28_NoSampleAfterStop ==
    [][(~streaming /\ pending = "none") =>
           /\ emitted' = emitted
           /\ sample_count' = sample_count
      ]_vars

\* What the code does: the flag is tested only before a read is begun, so
\* the read in flight when the stop completes still delivers its packet;
\* after that one the generator ends, and no read is begun while the flag
\* is false.
C28_OnlyTheReadInFlight ==
    [][(~streaming /\ pending = "none") =>
           /\ (emitted' # emitted \/ sample_count' # sample_count) =>
                  (reader_pc = "awaiting" /\ reader_pc' # "awaiting")
           /\ reader_pc # "awaiting" => reader_pc' # "awaiting"
      ]_vars
\* C29: within one V-CAW window, once ovulation_hour has been recorded it is
\* not changed by any later detect_ovulation call that supplies no LH
\* reading above 25, whatever the current V-CAW hour has become in the
\* meantime.
C29_OvulationHourKept ==
    [][(/\ ret'.op = "detect_ovulation"
        /\ vcaw_status # None
        /\ vcaw_status[1].ovulation_hour # None
        /\ ~LhSurge(ret'.args.lh_value)) =>
           vcaw_status'[1].ovulation_hour = vcaw_status[1].ovulation_hour
      ]_vars

\* What the code does: once an LH surge has been seen in a window, every
\* detect_ovulation call returns True and records the hour of the call.
C29_HourOfLatestCall ==
    [][(/\ ret'.op = "detect_ovulation"
        /\ vcaw_status # None
        /\ vcaw_status[1].lh_surge_detected) =>
           /\ ret'.value = TRUE
           /\ vcaw_status'[1].ovulation_hour = Some(vcaw_status[1].current_hour)
      ]_vars
\* The electrode indices of the readings of a request body.
IndicesOf(body) == {body.evg_readings[i].electrode_index : i \in 1..Len(body.evg_readings)}

\* Some electrode index occurs on two readings of the body.
IndexRepeated(body) ==
    \E i, j \in 1..Len(body.evg_readings) :
        i # j /\ body.evg_readings[i].electrode_index = body.evg_readings[j].electrode_index

\* C30: POST /assessments computes an LEI-V only from a request whose six
\* readings carry the six distinct electrode indices 1 to 6; a request with
\* six readings in which an electrode index is repeated is rejected with
\* HTTP 422 and produces no computation.
C30_DistinctElectrodes ==
    ret.op = "create_assessment" =>
        /\ ret.calculator_calls > 0 =>
               /\ Len(ret.args.evg_readings) = NUM_ELECTRODES
               /\ IndicesOf(ret.args) = 1..NUM_ELECTRODES
        /\ (Len(ret.args.evg_readings) = NUM_ELECTRODES /\ IndexRepeated(ret.args)) =>
               /\ ret.status_code = 422
               /\ ret.calculator_calls = 0

\* What the code does: six readings with indices in 1..6 are computed on,
\* repeated or not, the distances taken in the order of the stable sort.
C30_RangeOnly ==
    ret.op = "create_assessment" =>
        ((ret.status_code = 200) =
            (/\ Len(ret.args.evg_readings) = NUM_ELECTRODES
             /\ IndicesOf(ret.args) \subseteq 1..NUM_ELECTRODES
             /\ OptionalInRange(ret.args.cycle_day, 1, 35)))

=============================================================================
